---- MODULE Spec2Model ----
(***************************************************************************)
(* A model of the Common Data Type codec of DLMS_SPODES                    *)
(* (src/src/DLMS_SPODES/types/common_data_types.py).                       *)
(*                                                                         *)
(* Octet strings (Python bytes / bytearray) are sequences of 0..255.       *)
(* A Python integer that can exceed 31 bits (a length) is the sequence of  *)
(* its big-endian base-256 digits without leading zeros; <<>> is 0.        *)
(***************************************************************************)
EXTENDS Integers, Sequences, FiniteSets, TLC

VARIABLES
    classes,\* the classes, as the import of the module has built them
    lc,     \* the length codec: a length, its header and the decoded pair
    rg,     \* the Tag Registry: a tag and the outcome of its lookup
    obj,    \* the value under test
    last,   \* the last operation on obj and what it did
    heap    \* the objects of a program whose names share values

vars == <<classes, lc, rg, obj, last, heap>>

(***************************************************************************)
(* Bounds of the model.                                                    *)
(***************************************************************************)
\* the longest length value, in base-256 digits, handed to encode_length
MaxLenDigits == 4
\* the longest payload that follows a length header
MaxPayload == 2
\* the most children an Array is grown to by append and insert
MaxArrayLen == 3
\* the longest str of characters 0 and 1 handed to BitString.parse
MaxBits == 9

(***************************************************************************)
(* Python built-ins on bytes and integers.                                 *)
(***************************************************************************)
\* value[a:]   (a counted from 0)
SliceFrom(s, a) == IF a >= Len(s) THEN <<>> ELSE SubSeq(s, a + 1, Len(s))

\* value[:b]
SliceTo(s, b) == IF b <= 0 THEN <<>> ELSE SubSeq(s, 1, IF b < Len(s) THEN b ELSE Len(s))

\* value[a:b]
Slice(s, a, b) == SliceFrom(SliceTo(s, b), a)

\* bytes(n): n zero octets
Zeros(n) == [i \in 1..n |-> 0]

RECURSIVE StripZeros(_)
\* the digits of an integer carry no leading zero
StripZeros(d) == IF d # <<>> /\ d[1] = 0 THEN StripZeros(Tail(d)) ELSE d

\* int.from_bytes(b, 'big') as digits
int_from_bytes(b) == StripZeros(b)

RECURSIVE Digits(_)
\* a natural number as digits
Digits(n) == IF n = 0 THEN <<>> ELSE Digits(n \div 256) \o <<n % 256>>

\* int.to_bytes(length, 'big') of a non-negative integer given as digits;
\* the caller guarantees Len(d) <= length (else Python raises OverflowError)
to_bytes(d, length) == Zeros(length - Len(d)) \o d

\* d < n for a small natural n (n <= 256)
DigitsLess(d, n) == d = <<>> \/ (Len(d) = 1 /\ d[1] < n)

(***************************************************************************)
(* Length codec.                                                           *)
(***************************************************************************)
\* int(log(length, 256)) + 1 in double arithmetic, for length >= 2**32:
\* the quotient of the two logarithms rounds up to the next integer just
\* below a power of 256 (at 256**6 - 1, and from 256**7 - 411 on)
LogAmount(d) ==
    IF Len(d) = 6 /\ d = <<255, 255, 255, 255, 255, 255>> THEN 7
    ELSE IF Len(d) = 7 /\ SliceTo(d, 5) = <<255, 255, 255, 255, 255>>
            /\ (d[6] * 256 + d[7] >= 65536 - 411) THEN 8
    ELSE Len(d)

\* encode_length with the short form taken one value too far
encode_length_M(length) ==
    IF DigitsLess(length, 129) THEN to_bytes(length, 1)
    ELSE IF Len(length) <= 1 THEN <<129>> \o to_bytes(length, 1)
    ELSE IF Len(length) <= 2 THEN <<130>> \o to_bytes(length, 2)
    ELSE <<132>> \o to_bytes(length, 4)

\* encode_length: convert int to ASN.1 format
encode_length(length) ==
    IF DigitsLess(length, 128) THEN to_bytes(length, 1)
    ELSE IF Len(length) <= 1 THEN <<129>> \o to_bytes(length, 1)
    ELSE IF Len(length) <= 2 THEN <<130>> \o to_bytes(length, 2)
    ELSE IF Len(length) <= 4 THEN <<132>> \o to_bytes(length, 4)
    ELSE LET amount == LogAmount(length)
         IN  <<128 + amount>> \o to_bytes(length, amount)

\* get_length_and_pdu: (length, pdu) of a buffer that starts with a length
\* header; ok = FALSE is ValueError('Value is empty')
get_length_and_pdu(input_pdu) ==
    IF input_pdu = <<>>
    THEN [ok |-> FALSE, length |-> <<>>, pdu |-> <<>>]
    ELSE LET define_length == input_pdu[1]
             content_start == IF define_length >= 128
                              THEN 1 + (define_length - 128)
                              ELSE 1
         IN  [ok     |-> TRUE,
              length |-> IF define_length >= 128
                         THEN int_from_bytes(Slice(input_pdu, 1, content_start))
                         ELSE int_from_bytes(<<define_length>>),
              pdu    |-> SliceFrom(input_pdu, content_start)]

(***************************************************************************)
(* Classes.  A class is a record of the class attributes the codec reads:  *)
(* kind names the implementation (the class of this module that defines    *)
(* __init__), parent the direct base among the modelled classes.           *)
(***************************************************************************)
BaseAttrs ==
    [kind |-> "", parent |-> "", TAG |-> 0, SIGNED |-> FALSE, LENGTH |-> 0,
     hasVALUE |-> FALSE, VALUE |-> 0, hasMIN |-> FALSE, MIN |-> 0,
     hasMAX |-> FALSE, MAX |-> 0, hasDEFAULT |-> FALSE, DEFAULT |-> 0,
     SIZE |-> 0, TYPE |-> "None", hasELEMENTS |-> FALSE, ELEMENTS |-> <<>>,
     unique |-> FALSE]

\* class X(Digital, SimpleDataType): TAG, SIGNED, LENGTH; Digital's
\* __init_subclass__ runs without keywords and sets VALUE, MIN, MAX to None
DigitalClass(tag, signed, length) ==
    [BaseAttrs EXCEPT !.kind = "Digital", !.parent = "Digital", !.TAG = tag,
                      !.SIGNED = signed, !.LENGTH = length]

Max(a, b) == IF a >= b THEN a ELSE b

\* Digital.__init_subclass__ for class X(parent, min=.., max=..)
Digital_init_subclass_minmax(p, parent, min, max) ==
    [p EXCEPT !.parent = parent, !.hasVALUE = FALSE,
              !.hasMIN = TRUE, !.MIN = min, !.hasMAX = TRUE, !.MAX = max,
              !.hasDEFAULT = TRUE, !.DEFAULT = Max(0, min)]

\* Digital.__init_subclass__ for class X(parent, value=..): MIN, MAX and
\* DEFAULT stay the parent's
Digital_init_subclass_value(p, parent, value) ==
    [p EXCEPT !.parent = parent, !.hasVALUE = TRUE, !.VALUE = value]

StringClass(tag) ==
    [BaseAttrs EXCEPT !.kind = "String", !.parent = "_String", !.TAG = tag]

SimpleClass(kind, tag) ==
    [BaseAttrs EXCEPT !.kind = kind, !.parent = "SimpleDataType", !.TAG = tag]

Integer_ == DigitalClass(15, TRUE, 1)
Long_ == DigitalClass(16, TRUE, 2)
Unsigned_ == DigitalClass(17, FALSE, 1)
LongUnsigned_ == DigitalClass(18, FALSE, 2)

\* the constant type the clock methods return: class Only0(Unsigned, value=0)
Only0_ == Digital_init_subclass_value(Unsigned_, "Unsigned", 0)

\* the classes of the module, and subclasses declared by its users
Class ==
    [NullData           |-> SimpleClass("NullData", 0),
     Array              |-> [BaseAttrs EXCEPT !.kind = "Array", !.parent = "ComplexDataType", !.TAG = 1],
     Structure          |-> [BaseAttrs EXCEPT !.kind = "Structure", !.parent = "ComplexDataType", !.TAG = 2],
     Boolean            |-> SimpleClass("Boolean", 3),
     BitString          |-> SimpleClass("BitString", 4),
     DoubleLong         |-> DigitalClass(5, TRUE, 4),
     DoubleLongUnsigned |-> DigitalClass(6, FALSE, 4),
     OctetString        |-> StringClass(9),
     VisibleString      |-> StringClass(10),
     Utf8String         |-> StringClass(12),
     Bcd                |-> SimpleClass("Bcd", 13),
     Integer            |-> Integer_,
     Long               |-> Long_,
     Unsigned           |-> Unsigned_,
     LongUnsigned       |-> LongUnsigned_,
     CompactArray       |-> [BaseAttrs EXCEPT !.kind = "CompactArray", !.parent = "ComplexDataType", !.TAG = 19],
     Long64             |-> DigitalClass(20, TRUE, 8),
     Long64Unsigned     |-> DigitalClass(21, FALSE, 8),
     Enum               |-> [Unsigned_ EXCEPT !.kind = "Enum", !.parent = "Unsigned", !.TAG = 22],
     Float32            |-> [SimpleClass("Float", 23) EXCEPT !.parent = "Float", !.LENGTH = 4],
     Float64            |-> [SimpleClass("Float", 24) EXCEPT !.parent = "Float", !.LENGTH = 8],
     DateTime           |-> [SimpleClass("DateTime", 25) EXCEPT !.LENGTH = 12],
     Date               |-> [SimpleClass("Date", 26) EXCEPT !.LENGTH = 5],
     Time               |-> [SimpleClass("Time", 27) EXCEPT !.LENGTH = 4],
     \* clock.py: class ShiftTime(cdt.Long, min=-900, max=900)
     ShiftTime          |-> Digital_init_subclass_minmax(Long_, "Long", -900, 900),
     \* class Only0(Unsigned, value=0)
     Only0              |-> Only0_,
     \* class TestArray(cdt.Array): TYPE = cdt.Unsigned
     TestArray          |-> [BaseAttrs EXCEPT !.kind = "Array", !.parent = "Array", !.TAG = 1,
                                              !.TYPE = "Unsigned"],
     \* an Array subclass with TYPE = Unsigned and unique = True
     UniqueArray        |-> [BaseAttrs EXCEPT !.kind = "Array", !.parent = "Array", !.TAG = 1,
                                              !.TYPE = "Unsigned", !.unique = TRUE],
     \* class TestStructure(cdt.Structure): ELEMENTS = (Unsigned, OctetString, TestArray)
     TestStructure      |-> [BaseAttrs EXCEPT !.kind = "Structure", !.parent = "Structure", !.TAG = 2,
                                              !.hasELEMENTS = TRUE,
                                              !.ELEMENTS = <<"Unsigned", "OctetString", "TestArray">>]]

ClassNames == DOMAIN classes

RECURSIVE issubclass(_, _)
\* issubclass(T, U) over the modelled classes
issubclass(T, U) ==
    \/ T = U
    \/ T \in ClassNames /\ issubclass(classes[T].parent, U)

(***************************************************************************)
(* Values.  A CommonDataType instance is a record of its instance          *)
(* attributes; a Python argument is a record with its host type in form.   *)
(***************************************************************************)
\* contents is None
PyNone == <<-1>>
\* the instance has no attribute contents
NoAttr == <<-2>>
\* the BitString has no attribute __length
NoLength == -1

MkVal(T, contents) ==
    [T |-> T, contents |-> contents, length |-> NoLength, values |-> <<>>,
     TYPE |-> "None", hasELEMENTS |-> FALSE, ELEMENTS |-> <<>>,
     cb_preset |-> FALSE, cb_post_set |-> FALSE]

NoValue == MkVal("", NoAttr)

Ok(v) == [ok |-> TRUE, v |-> v, err |-> ""]
Err(e) == [ok |-> FALSE, v |-> NoValue, err |-> e]

\* a bytes result or an exception
OkB(b) == [ok |-> TRUE, b |-> b, err |-> ""]
ErrB(e) == [ok |-> FALSE, b |-> <<>>, err |-> e]

NoArg == [form |-> "None", b |-> <<>>, i |-> 0, l |-> <<>>, v |-> NoValue]
PyBytes(b) == [NoArg EXCEPT !.form = "bytes", !.b = b]
PyByteArray(b) == [NoArg EXCEPT !.form = "bytearray", !.b = b]
PyInt(i) == [NoArg EXCEPT !.form = "int", !.i = i]
PyBool(i) == [NoArg EXCEPT !.form = "bool", !.i = i]
\* a str is the sequence of its character codes
PyStr(s) == [NoArg EXCEPT !.form = "str", !.b = s]
PyList(l) == [NoArg EXCEPT !.form = "list", !.l = l]
PyTuple(l) == [NoArg EXCEPT !.form = "tuple", !.l = l]
PyCdt(v) == [NoArg EXCEPT !.form = "cdt", !.v = v]

\* value.contents: the bytes, or AttributeError when the attribute is unset
GetContents(v) == IF v.contents = NoAttr THEN ErrB("no_attribute") ELSE OkB(v.contents)

\* isinstance(value, SimpleDataType)
isSimple(value) ==
    value.form = "cdt" /\ value.v.T \in ClassNames
        /\ classes[value.v.T].kind \notin {"Array", "Structure", "CompactArray"}

\* isinstance(value, T) for a CommonDataType argument
isinstance(value, T) == value.form = "cdt" /\ issubclass(value.v.T, T)

RECURSIVE IntOfUnsigned(_)
\* int.from_bytes(b, 'big') as a number (b short enough for it)
IntOfUnsigned(b) ==
    IF b = <<>> THEN 0 ELSE IntOfUnsigned(SubSeq(b, 1, Len(b) - 1)) * 256 + b[Len(b)]

RECURSIVE Pow256(_)
Pow256(n) == IF n = 0 THEN 1 ELSE 256 * Pow256(n - 1)

\* stands for every integer of more than three significant bytes: beyond
\* each MIN, MAX and VALUE a class declares
Huge == 64 * Pow256(3)

\* int.from_bytes(b, 'big', signed=signed), Huge or -Huge when the value
\* has more than three significant bytes
IntOf(signed, b) ==
    IF signed /\ b # <<>> /\ b[1] >= 128
    THEN LET m == StripZeros([k \in 1..Len(b) |-> 255 - b[k]])
         IN  IF Len(m) <= 3 THEN -IntOfUnsigned(m) - 1 ELSE -Huge
    ELSE LET m == StripZeros(b)
         IN  IF Len(m) <= 3 THEN IntOfUnsigned(m) ELSE Huge

\* int.to_bytes(length, 'big', signed=signed); OverflowError is "overflow"
int_to_bytes(value, length, signed) ==
    LET d == Digits(IF value >= 0 THEN value ELSE -value - 1)
        fits == IF signed
                THEN Len(d) < length \/ (Len(d) = length /\ d[1] < 128)
                ELSE Len(d) <= length
        padded == to_bytes(d, length)
    IN  IF (value < 0 /\ ~signed) \/ ~fits THEN ErrB("overflow")
        ELSE IF value >= 0 THEN OkB(padded)
        ELSE OkB([k \in 1..length |-> 255 - padded[k]])

IsDigit(ch) == ch \in 48..57

RECURSIVE DecimalOf(_)
\* the number written by a sequence of digit characters
DecimalOf(s) ==
    IF s = <<>> THEN 0 ELSE DecimalOf(SubSeq(s, 1, Len(s) - 1)) * 10 + (s[Len(s)] - 48)

\* int(float(value)) of a str over the characters 0-9 + - . and letters
\* (no exponent, blank or underscore): sign, digits, optional fraction;
\* ok = FALSE is the ValueError of float()
int_of_float_str(s) ==
    LET parse(negative, body) ==
            LET split(dots) ==
                    LET number(whole, frac) ==
                            IF /\ Cardinality(dots) <= 1
                               /\ \A k \in 1..Len(whole) : IsDigit(whole[k])
                               /\ \A k \in 1..Len(frac) : IsDigit(frac[k])
                               /\ Len(whole) + Len(frac) > 0
                            THEN [ok |-> TRUE,
                                  i |-> IF negative THEN -DecimalOf(whole) ELSE DecimalOf(whole)]
                            ELSE [ok |-> FALSE, i |-> 0]
                        at(dot) == number(SubSeq(body, 1, dot - 1), SubSeq(body, dot + 1, Len(body)))
                    IN  at(IF dots = {} THEN Len(body) + 1 ELSE CHOOSE k \in dots : TRUE)
            IN  split({k \in 1..Len(body) : body[k] = 46})
    IN  IF s # <<>> /\ s[1] \in {43, 45} THEN parse(s[1] = 45, Tail(s)) ELSE parse(FALSE, s)

(***************************************************************************)
(* Digital: the integer types.                                             *)
(***************************************************************************)
\* Digital.from_int
Digital_from_int(T, value) ==
    LET raised(r) == IF r.ok THEN r ELSE ErrB("out_of_range")
    IN  raised(int_to_bytes(value, classes[T].LENGTH, classes[T].SIGNED))

\* Digital.from_str
Digital_from_str(T, value) ==
    LET from(f) == IF f.ok THEN Digital_from_int(T, f.i) ELSE ErrB("not_a_number")
    IN  from(int_of_float_str(value))

\* Digital.validate with the bounds compared strictly
Digital_validate_M(T, contents) ==
    LET c == classes[T]
        check(i) ==
            IF c.hasVALUE /\ i # c.VALUE THEN "wrong_value"
            ELSE IF c.hasMIN /\ c.MIN >= i THEN "out_of_range"
            ELSE IF c.hasMAX /\ i >= c.MAX THEN "out_of_range"
            ELSE ""
    IN  check(IntOf(c.SIGNED, contents))

\* Digital.validate: "" when the contents pass, else the error
Digital_validate(T, contents) ==
    LET c == classes[T]
        check(i) ==
            IF c.hasVALUE /\ i # c.VALUE THEN "wrong_value"
            ELSE IF c.hasMIN /\ c.MIN > i THEN "out_of_range"
            ELSE IF c.hasMAX /\ i > c.MAX THEN "out_of_range"
            ELSE ""
    IN  check(IntOf(c.SIGNED, contents))

\* Digital.__init__
Digital_init(T, value0) ==
    LET c == classes[T]
        contents(value) ==
            CASE value.form = "bytes" ->
                    IF SliceTo(value.b, 1) # <<c.TAG>> THEN ErrB("wrong_tag")
                    ELSE IF c.LENGTH <= Len(value.b) - 1
                         THEN OkB(Slice(value.b, 1, 1 + c.LENGTH))
                         ELSE ErrB("length")
              [] value.form = "bytearray" -> OkB(value.b)
              [] value.form = "str" /\ value.b = <<45>> /\ c.SIGNED -> OkB(Zeros(c.LENGTH))
              [] value.form \in {"int", "bool"} -> Digital_from_int(T, value.i)
              [] value.form = "str" -> Digital_from_str(T, value.b)
              [] value.form = "None" -> OkB(Zeros(c.LENGTH))
              [] isinstance(value, T) -> GetContents(value.v)
              [] OTHER -> ErrB("unsupported")
        validated(r) ==
            LET raised(e) == IF e # "" THEN Err(e) ELSE Ok(MkVal(T, r.b))
            IN  IF ~r.ok THEN Err(r.err) ELSE raised(Digital_validate(T, r.b))
    IN  validated(contents(IF value0.form = "None" /\ c.hasDEFAULT THEN PyInt(c.DEFAULT)
                           ELSE value0))

(***************************************************************************)
(* Enum, Boolean, the strings, BitString, Bcd, Float, NullData.            *)
(***************************************************************************)
\* str.isdigit() for a str of ASCII characters
isdigit(s) == s # <<>> /\ \A k \in 1..Len(s) : IsDigit(s[k])

\* Enum.__init__ (NAMES is empty, so from_none is b'\x00'; a str holds no
\* parenthesis, so enum_rep does not match)
Enum_init(T, value) ==
    LET made(r) == IF r.ok THEN Ok(MkVal(T, r.b)) ELSE Err(r.err)
    IN  made(CASE value.form = "bytes" ->
                    IF SliceTo(value.b, 1) # <<classes[T].TAG>> THEN ErrB("wrong_tag")
                    ELSE IF Len(value.b) >= 2 THEN OkB(Slice(value.b, 1, 2))
                    ELSE ErrB("length")
               [] value.form = "bytearray" -> OkB(value.b)
               [] value.form = "None" -> OkB(<<0>>)
               [] value.form = "str" ->
                    IF isdigit(value.b) THEN Digital_from_int(T, DecimalOf(value.b))
                    ELSE ErrB("not_a_number")
               [] value.form \in {"int", "bool"} -> Digital_from_int(T, value.i)
               [] isinstance(value, T) -> GetContents(value.v)
               [] OTHER -> ErrB("unsupported"))

\* Boolean.from_int
Boolean_from_int(value) == IF value = 0 THEN <<0>> ELSE <<1>>

\* str.title() of a str of ASCII characters
title(s) ==
    [k \in 1..Len(s) |->
        LET isalpha(ch) == ch \in 65..90 \/ ch \in 97..122
            first == k = 1 \/ ~isalpha(s[k - 1])
        IN  IF first /\ s[k] \in 97..122 THEN s[k] - 32
            ELSE IF ~first /\ s[k] \in 65..90 THEN s[k] + 32
            ELSE s[k]]

\* word.startswith(prefix)
startswith(word, prefix) ==
    Len(prefix) <= Len(word) /\ SubSeq(word, 1, Len(prefix)) = prefix

\* Boolean.from_str for a str of ASCII characters: the words are "False",
\* "No", "True", "Yes"; a str that matches neither list gives None
Boolean_from_str(value) ==
    LET word(t) ==
            IF value = <<48>> \/ startswith(<<70, 97, 108, 115, 101>>, t)
                              \/ startswith(<<78, 111>>, t)
            THEN <<0>>
            ELSE IF value = <<49>> \/ startswith(<<84, 114, 117, 101>>, t)
                                   \/ startswith(<<89, 101, 115>>, t)
            THEN <<1>>
            ELSE PyNone
    IN  word(title(value))

\* Boolean.__init__ with Boolean.from_bytes
Boolean_init(T, value) ==
    LET made(r) == IF r.ok THEN Ok(MkVal(T, r.b)) ELSE Err(r.err)
    IN  made(CASE value.form = "None" -> OkB(<<0>>)
               [] value.form = "bytes" ->
                    IF Len(value.b) = 0 THEN ErrB("no_data")
                    ELSE IF Len(value.b) = 1 THEN ErrB("length")
                    ELSE IF SliceTo(value.b, 1) # <<classes[T].TAG>> THEN ErrB("wrong_tag")
                    ELSE OkB(Boolean_from_int(value.b[2]))
               [] value.form = "bytearray" -> OkB(value.b)
               [] value.form = "str" -> OkB(Boolean_from_str(value.b))
               [] value.form \in {"int", "bool"} -> OkB(Boolean_from_int(value.i))
               [] isinstance(value, "Boolean") -> GetContents(value.v)
               [] OTHER -> ErrB("unsupported"))

RECURSIVE str_of_nat(_)
str_of_nat(n) == IF n < 10 THEN <<48 + n>> ELSE str_of_nat(n \div 10) \o <<48 + (n % 10)>>

\* str(value) of an int
str_of_int(value) == IF value < 0 THEN <<45>> \o str_of_nat(-value) ELSE str_of_nat(value)

\* the value of a hexadecimal digit character, -1 for any other character
hexval(ch) ==
    IF ch \in 48..57 THEN ch - 48
    ELSE IF ch \in 97..102 THEN ch - 87
    ELSE IF ch \in 65..70 THEN ch - 55
    ELSE -1

\* bytes.fromhex for a str without blanks
fromhex(s) ==
    IF Len(s) % 2 = 1 \/ \E k \in 1..Len(s) : hexval(s[k]) < 0 THEN ErrB("not_hex")
    ELSE OkB([k \in 1..(Len(s) \div 2) |-> 16 * hexval(s[2 * k - 1]) + hexval(s[2 * k])])

\* OctetString.from_int: the shortest big-endian form, at least one byte
OctetString_from_int(value) ==
    IF value < 0 THEN ErrB("out_of_range")
    ELSE OkB(IF value = 0 THEN <<0>> ELSE Digits(value))

\* from_str of OctetString, VisibleString, Utf8String (ASCII characters)
String_from_str(T, value) ==
    IF T = "OctetString" THEN fromhex(value) ELSE OkB(value)

\* from_int of OctetString, VisibleString, Utf8String; str(value) of a bool
\* is "True" or "False"
String_from_int(T, value) ==
    IF T = "OctetString" THEN OctetString_from_int(value.i)
    ELSE IF value.form = "bool"
         THEN OkB(IF value.i = 1 THEN <<84, 114, 117, 101>> ELSE <<70, 97, 108, 115, 101>>)
    ELSE OkB(str_of_int(value.i))

\* a length no longer than n bytes
LengthAtMost(length, n) == DigitsLess(length, n + 1)

\* _String.__init__ and _String.validation
String_init(T, value) ==
    LET from_bytes(lp) ==
            IF ~lp.ok THEN ErrB("empty")
            ELSE IF SliceTo(value.b, 1) # <<classes[T].TAG>> THEN ErrB("wrong_tag")
            ELSE IF LengthAtMost(lp.length, Len(lp.pdu))
                 THEN OkB(SliceTo(lp.pdu, IntOfUnsigned(lp.length)))
                 ELSE ErrB("length")
        validation(r) ==
            IF ~r.ok THEN Err(r.err)
            ELSE IF classes[T].SIZE # 0 /\ Len(r.b) # classes[T].SIZE THEN Err("size")
            ELSE Ok(MkVal(T, r.b))
    IN  validation(CASE value.form = "None" -> OkB(<<>>)
                     [] value.form = "bytes" ->
                            from_bytes(get_length_and_pdu(SliceFrom(value.b, 1)))
                     [] value.form = "bytearray" -> OkB(value.b)
                     [] value.form = "str" -> String_from_str(T, value.b)
                     [] value.form \in {"int", "bool"} -> String_from_int(T, value)
                     [] isSimple(value) -> GetContents(value.v)
                     [] OTHER -> ErrB("unsupported"))

\* int(chunk, base=2) of eight characters 0 and 1
int_base2(chunk) ==
    128 * (chunk[1] - 48) + 64 * (chunk[2] - 48) + 32 * (chunk[3] - 48) + 16 * (chunk[4] - 48)
        + 8 * (chunk[5] - 48) + 4 * (chunk[6] - 48) + 2 * (chunk[7] - 48) + (chunk[8] - 48)

\* BitString.from_str for a str of digits and letters: the bits packed from
\* the left, the last byte padded with zeros; ok = FALSE is the ValueError
\* of int(.., base=2)
BitString_from_str(value) ==
    LET pack(padded) ==
            [n \in 1..(Len(padded) \div 8) |-> int_base2(SubSeq(padded, 8 * n - 7, 8 * n))]
    IN  IF \E k \in 1..Len(value) : value[k] \notin {48, 49} THEN ErrB("not_binary")
        ELSE OkB(pack(value \o [k \in 1..((8 - (Len(value) % 8)) % 8) |-> 48]))

RECURSIVE join_str(_)
\* "".join(map(str, value)) for a list of int
join_str(l) == IF l = <<>> THEN <<>> ELSE str_of_int(Head(l).i) \o join_str(Tail(l))

\* ceil(n / 8)
ceil8(n) == (n + 7) \div 8

\* BitString.__init__ with from_bytes, from_str, from_list, from_int: the
\* contents and the bit length (NoLength when __init__ leaves it unset)
BitString_init(T, value) ==
    LET made(r, length) ==
            IF r.ok THEN Ok([MkVal(T, r.b) EXCEPT !.length = length]) ELSE Err(r.err)
        from_bytes(lp) ==
            made(IF ~lp.ok THEN ErrB("empty")
                 ELSE IF SliceTo(value.b, 1) # <<classes[T].TAG>> THEN ErrB("wrong_tag")
                 ELSE IF lp.length = <<>> THEN OkB(<<>>)
                 ELSE IF LengthAtMost(lp.length, Len(lp.pdu) * 8)
                      THEN OkB(SliceTo(lp.pdu, ceil8(IntOfUnsigned(lp.length))))
                      ELSE ErrB("length"),
                 IF lp.ok /\ LengthAtMost(lp.length, Len(lp.pdu) * 8)
                 THEN IntOfUnsigned(lp.length) ELSE 0)
        from_str(s) == made(BitString_from_str(s), Len(s))
    IN  CASE value.form = "None" -> made(OkB(<<>>), 0)
          [] value.form = "bytes" -> from_bytes(get_length_and_pdu(SliceFrom(value.b, 1)))
          [] value.form = "bytearray" -> made(OkB(value.b), NoLength)
          [] value.form = "str" -> from_str(value.b)
          [] value.form = "list" -> from_str(join_str(value.l))
          [] value.form \in {"int", "bool"} -> Err("unsupported")
          [] isinstance(value, "BitString") ->
                made(IF value.v.length = NoLength THEN ErrB("no_attribute")
                     ELSE GetContents(value.v),
                     value.v.length)
          [] OTHER -> Err("unsupported")

\* Bcd.__init__ with from_bytes, from_str, from_int; Bcd() assigns nothing
Bcd_init(T, value) ==
    LET one(i) == IF i \in 0..255 THEN OkB(<<i>>) ELSE ErrB("out_of_range")
        from_str(digits) ==
            IF ~isdigit(digits) THEN ErrB("not_a_number")
            ELSE one(IF value.b[1] = 45 THEN -DecimalOf(digits) ELSE DecimalOf(digits))
        made(r) == IF r.ok THEN Ok(MkVal(T, r.b)) ELSE Err(r.err)
    IN  made(CASE value.form = "None" -> OkB(NoAttr)
               [] value.form = "bytes" ->
                    IF SliceTo(value.b, 1) # <<classes[T].TAG>> THEN ErrB("wrong_tag")
                    ELSE IF 1 <= Len(value.b) - 1 THEN OkB(Slice(value.b, 1, 2))
                    ELSE ErrB("length")
               [] value.form = "bytearray" -> OkB(value.b)
               [] value.form = "str" ->
                    from_str(IF value.b # <<>> /\ value.b[1] \in {43, 45} THEN Tail(value.b)
                             ELSE value.b)
               [] value.form \in {"int", "bool"} -> one(value.i)
               [] isinstance(value, "Bcd") -> GetContents(value.v)
               [] OTHER -> ErrB("unsupported"))

\* NullData.__init__: nothing is stored; contents is the property b''
NullData_init(T, value) ==
    CASE value.form = "bytes" ->
            IF SliceTo(value.b, 1) = <<classes[T].TAG>> THEN Ok(MkVal(T, <<>>)) ELSE Err("wrong_tag")
      [] value.form \in {"None", "str"} \/ isinstance(value, "NullData") -> Ok(MkVal(T, <<>>))
      [] OTHER -> Err("unsupported")

RECURSIVE log2(_)
\* the position of the highest set bit of m > 0
log2(m) == IF m < 2 THEN 0 ELSE 1 + log2(m \div 2)

RECURSIVE Pow2(_)
Pow2(n) == IF n = 0 THEN 1 ELSE 2 * Pow2(n - 1)

\* struct.pack(FORMAT, x) for the float x = (-1)^neg * m, m an integer below
\* 2^20: sign, biased exponent, fraction (IEEE 754 binary32 and binary64)
pack_float(T, neg, m) ==
    LET pack(e, top20) ==
            IF classes[T].LENGTH = 4
            THEN <<128 * neg + (e + 127) \div 2,
                   128 * ((e + 127) % 2) + top20 \div 8192,
                   (top20 \div 32) % 256,
                   (top20 % 32) * 8>>
            ELSE <<128 * neg + (e + 1023) \div 16,
                   16 * ((e + 1023) % 16) + top20 \div 65536,
                   (top20 \div 256) % 256,
                   top20 % 256, 0, 0, 0, 0>>
        normal(e) == pack(e, (m - Pow2(e)) * Pow2(20 - e))
    IN  IF m = 0 THEN <<128 * neg>> \o Zeros(classes[T].LENGTH - 1) ELSE normal(log2(m))

\* Float.from_str for a str of the characters 0-9 + - . z that writes an
\* integer below 2^20 (float.fromhex rejects whatever float rejects here)
Float_from_str(T, value) ==
    LET from(f) ==
            IF f.ok
            THEN OkB(pack_float(T, IF value # <<>> /\ value[1] = 45 THEN 1 ELSE 0,
                                IF f.i < 0 THEN -f.i ELSE f.i))
            ELSE ErrB("not_a_number")
    IN  from(int_of_float_str(value))

\* Float.__init__: Float32 and Float64 define no __len__, so the bytes and
\* the None case end in the TypeError of len(self)
Float_init(T, value) ==
    LET made(r) == IF r.ok THEN Ok(MkVal(T, r.b)) ELSE Err(r.err)
    IN  made(CASE value.form = "None" -> ErrB("no_len")
               [] value.form = "bytes" -> ErrB("no_len")
               [] value.form = "bytearray" -> OkB(value.b)
               [] value.form = "str" -> Float_from_str(T, value.b)
               [] value.form \in {"int", "bool"} ->
                    OkB(pack_float(T, IF value.i < 0 THEN 1 ELSE 0,
                                   IF value.i < 0 THEN -value.i ELSE value.i))
               [] value.form = "cdt" /\ value.v.T \in ClassNames
                     /\ classes[value.v.T].kind = "Float" -> GetContents(value.v)
               [] OTHER -> ErrB("unsupported"))

(***************************************************************************)
(* Date, Time, DateTime.                                                   *)
(***************************************************************************)
is_leap(y) == y % 4 = 0 /\ (y % 100 # 0 \/ y % 400 = 0)

days_in_month(y, m) ==
    IF m = 2 THEN (IF is_leap(y) THEN 29 ELSE 28)
    ELSE IF m \in {4, 6, 9, 11} THEN 30 ELSE 31

RECURSIVE days_before_month(_, _)
days_before_month(y, m) ==
    IF m = 1 THEN 0 ELSE days_before_month(y, m - 1) + days_in_month(y, m - 1)

\* datetime.date(y, m, d) exists
valid_date(y, m, d) ==
    y \in 1..9999 /\ m \in 1..12 /\ d >= 1 /\ d <= days_in_month(y, m)

\* datetime.date(y, m, d).weekday(): Monday is 0
weekday(y, m, d) ==
    LET before_year == (y - 1) * 365 + (y - 1) \div 4 - (y - 1) \div 100 + (y - 1) \div 400
    IN  (before_year + days_before_month(y, m) + d + 6) % 7

\* __Date.check_date: "" when the five bytes pass, else the error
check_date(value) ==
    LET check(year, month, day_of_month, day_of_week) ==
            IF ~valid_date(year, month, day_of_month) THEN "value_error"
            ELSE IF /\ weekday(year, month, day_of_month) # day_of_week - 1
                    /\ value[5] # 255
                    /\ SubSeq(value, 1, 2) # <<255, 255>>
                    /\ value[3] \notin {253, 254, 255}
                    /\ value[3] \notin {253, 254, 255}
                 THEN "validation"
            ELSE ""
    IN  IF Len(value) # 5 THEN "validation"
        ELSE check(IF SubSeq(value, 1, 2) = <<255, 255>> THEN 256
                   ELSE value[1] * 256 + value[2],
                   IF value[3] \in {253, 254, 255} THEN 1 ELSE value[3],
                   IF value[4] \in {253, 254, 255} THEN 1 ELSE value[4],
                   IF value[5] = 255 THEN 1 ELSE value[5])

\* __Time.check_time on the bytes at the time offset: "" or the error of
\* datetime.time(hour, minute, second, microsecond)
check_time(T, contents) ==
    LET check(t) ==
            IF \/ Len(t) >= 1 /\ t[1] > 23
               \/ Len(t) >= 2 /\ t[2] > 59
               \/ Len(t) >= 3 /\ t[3] > 59
            THEN "value_error" ELSE ""
        at(offset) ==
            check([k \in 1..Len(Slice(contents, offset, offset + 4)) |->
                      IF contents[offset + k] = 255 THEN 0 ELSE contents[offset + k]])
    IN  at(IF classes[T].LENGTH = 4 THEN 0 ELSE 5)

(***************************************************************************)
(* Date and time from text.                                                *)
(***************************************************************************)
RECURSIVE separate_from(_, _, _, _, _, _)
\* the loop of separate from the rest value of the string on
separate_from(value, pattern, max_sep, paths, separators, path) ==
    IF value = <<>> THEN [separators |-> separators, paths |-> Append(paths, path)]
    ELSE IF value[1] \in pattern
    THEN IF Len(separators) + 1 = max_sep
         THEN [separators |-> Append(separators, value[1]),
               paths |-> paths \o <<path, Tail(value)>>]
         ELSE separate_from(Tail(value), pattern, max_sep, Append(paths, path),
                            Append(separators, value[1]), <<>>)
    ELSE IF value[1] = 32
    THEN [separators |-> Append(separators, 32), paths |-> paths \o <<path, Tail(value)>>]
    ELSE separate_from(Tail(value), pattern, max_sep, paths, separators,
                       Append(path, value[1]))

\* separate(value, pattern, max_sep): the separators met and the paths
\* between them
separate(value, pattern, max_sep) == separate_from(value, pattern, max_sep, <<>>, <<>>, <<>>)

\* the least and the greatest of a set of numbers
set_min(S) == CHOOSE x \in S : \A y \in S : x <= y
set_max(S) == CHOOSE x \in S : \A y \in S : x >= y

\* str.lower() over the Latin and the Russian letters
lower(s) ==
    [k \in 1..Len(s) |->
        IF s[k] \in 65..90 \/ s[k] \in 1040..1071 THEN s[k] + 32
        ELSE IF s[k] = 1025 THEN 1105 ELSE s[k]]

\* the texts of an unspecified field: '', '_', '__'
NotSpecifiedText == {<<>>, <<95>>, <<95, 95>>}

\* the names of the weekdays 1..7 that from_weekday of strpdate knows
weekday_names ==
    <<{<<49>>, <<1087, 1086>>, <<1087, 1086, 1085>>,
         <<1087, 1086, 1085, 1077, 1076, 1077, 1083, 1100, 1085, 1080, 1082>>, <<109, 111>>,
         <<109, 111, 110>>, <<109, 111, 110, 100, 97, 121>>},
      {<<50>>, <<1074, 1090>>, <<1074, 1090, 1086>>,
         <<1074, 1090, 1086, 1088, 1085, 1080, 1082>>, <<116, 117>>, <<116, 117, 101>>,
         <<116, 117, 101, 115, 100, 97, 121>>},
      {<<51>>, <<1089, 1088>>, <<1089, 1088, 1077>>, <<1089, 1088, 1077, 1076, 1072>>,
         <<119, 101>>, <<119, 101, 100>>, <<119, 101, 100, 110, 101, 115, 100, 97, 121>>},
      {<<52>>, <<1095, 1090>>, <<1095, 1077, 1090>>,
         <<1095, 1077, 1090, 1074, 1077, 1088, 1075>>, <<116, 104>>, <<116, 104, 117>>,
         <<116, 104, 117, 114, 115, 100, 97, 121>>},
      {<<53>>, <<1087, 1090>>, <<1087, 1103, 1090>>,
         <<1087, 1103, 1090, 1085, 1080, 1094, 1072>>, <<102, 114>>, <<102, 114, 105>>,
         <<102, 114, 105, 100, 97, 121>>},
      {<<54>>, <<1089, 1073>>, <<1089, 1091, 1073>>,
         <<1089, 1091, 1073, 1073, 1086, 1090, 1072>>, <<115, 97>>, <<115, 97, 116>>,
         <<115, 97, 116, 117, 114, 100, 97, 121>>},
      {<<55>>, <<1074, 1089>>, <<1074, 1086, 1089>>,
         <<1074, 1086, 1089, 1082, 1088, 1077, 1089, 1077, 1085, 1100, 1077>>, <<115, 117>>,
         <<115, 117, 110>>, <<115, 117, 110, 100, 97, 121>>, <<>>}>>

\* the names that from_weekday compares the start of with the text
weekday_starts ==
    {<<1087, 1086, 1085, 1077, 1076, 1077, 1083, 1100, 1085, 1080>>,
         <<1074, 1090, 1086, 1088, 1085, 1080>>, <<1089, 1088, 1077, 1076>>,
         <<1095, 1077, 1090, 1074, 1077, 1088>>, <<1087, 1103, 1090, 1085, 1080, 1094>>,
         <<1089, 1091, 1073, 1073, 1086, 1090>>,
         <<1074, 1086, 1089, 1082, 1088, 1077, 1089, 1077, 1085, 1100>>,
         <<109, 111, 110, 100, 97>>, <<116, 117, 101, 115, 100, 97>>,
         <<119, 101, 100, 110, 101, 115, 100, 97>>, <<116, 104, 117, 114, 115, 100, 97>>,
         <<102, 114, 105, 100, 97>>, <<115, 97, 116, 117, 114, 100, 97>>,
         <<115, 117, 110, 100, 97>>}

\* from_year, from_month, from_monthday, from_weekday of strpdate and
\* from_hour, from_minute, from_second, from_hundredths of strptime: the
\* bytes of the field, <<>> for the ValueError
from_year(Y) ==
    IF Y \in NotSpecifiedText \cup {<<95, 95, 95>>, <<95, 95, 95, 95>>} THEN <<255, 255>>
    ELSE IF isdigit(Y) /\ Len(Y) <= 2
    THEN <<(DecimalOf(Y) + 2000) \div 256, (DecimalOf(Y) + 2000) % 256>>
    ELSE IF isdigit(Y) /\ Len(Y) <= 4 THEN <<DecimalOf(Y) \div 256, DecimalOf(Y) % 256>>
    ELSE <<>>

from_number(text, min, max) ==
    IF text \in NotSpecifiedText THEN <<255>>
    ELSE IF isdigit(text) /\ min <= DecimalOf(text) /\ DecimalOf(text) <= max
    THEN <<DecimalOf(text)>>
    ELSE <<>>

from_month(m) ==
    LET named(n) ==
            IF n # <<>> THEN n
            ELSE IF m = <<98, 101, 103, 105, 110>> THEN <<254>>
            ELSE IF m = <<101, 110, 100>> THEN <<253>>
            ELSE <<>>
    IN  named(from_number(m, 1, 12))

from_monthday(d) ==
    LET named(n) ==
            IF n # <<>> THEN n
            ELSE IF d = <<108, 97, 115, 116>> THEN <<254>>
            ELSE IF d = <<112, 101, 110, 117, 108, 116>> THEN <<253>>
            ELSE <<>>
    IN  named(from_number(d, 1, 31))

from_weekday(w) ==
    LET named(low, names) ==
            LET days == {k \in 1..7 : low \in names[k]}
            IN  IF low \in NotSpecifiedText THEN <<255>>
                ELSE IF isdigit(w) /\ DecimalOf(w) \in 1..7 THEN <<DecimalOf(w)>>
                ELSE IF days # {} THEN <<set_min(days)>>
                ELSE IF \E pat \in weekday_starts : startswith(pat, w) THEN <<255>>
                ELSE <<>>
    IN  named(lower(w), weekday_names)

from_hundredths(f) ==
    IF f \in NotSpecifiedText THEN <<255>>
    ELSE IF isdigit(f) /\ Len(f) <= 2 THEN <<DecimalOf(f)>>
    ELSE <<>>

RECURSIVE Flatten(_)
\* the sequences of a sequence joined
Flatten(l) == IF l = <<>> THEN <<>> ELSE Head(l) \o Flatten(Tail(l))

\* bytes((...)) of the fields, or the ValueError of one of them
bytes_of(fields) ==
    IF \E k \in 1..Len(fields) : fields[k] = <<>> THEN ErrB("value_error")
    ELSE OkB(Flatten(fields))

\* __Date.strpdate: the places of Y, m, d, w among the paths, 0 for a
\* field that the format lacks
strpdate(value) ==
    LET fields(p, at) ==
            bytes_of(<<IF at[1] = 0 THEN <<255, 255>> ELSE from_year(p[at[1]]),
                       IF at[2] = 0 THEN <<255>> ELSE from_month(p[at[2]]),
                       IF at[3] = 0 THEN <<255>> ELSE from_monthday(p[at[3]]),
                       IF at[4] = 0 THEN <<255>> ELSE from_weekday(p[at[4]])>>)
        match(sep, p) ==
            CASE Len(p) = 1 /\ isdigit(p[1]) -> fields(p, <<0, 0, 1, 0>>)
              [] Len(p) = 1 /\ ~isdigit(p[1]) -> fields(p, <<0, 0, 0, 1>>)
              [] sep = <<46>> -> fields(p, <<0, 2, 1, 0>>)
              [] sep = <<46, 46>> -> fields(p, <<3, 2, 1, 0>>)
              [] sep = <<46, 45>> -> fields(p, <<0, 2, 1, 3>>)
              [] sep = <<45, 46>> -> fields(p, <<0, 3, 2, 1>>)
              [] sep = <<46, 46, 45>> -> fields(p, <<3, 2, 1, 4>>)
              [] sep = <<45, 46, 46>> -> fields(p, <<4, 3, 2, 1>>)
              [] OTHER -> ErrB("value_error")
        separated(s) == match(s.separators, s.paths)
    IN  separated(separate(value, {46, 45}, 3))

\* __Time.strptime: the places of H, M, S, f among the paths
strptime(value) ==
    LET fields(p, at) ==
            bytes_of(<<IF at[1] = 0 THEN <<255>> ELSE from_number(p[at[1]], 0, 23),
                       IF at[2] = 0 THEN <<255>> ELSE from_number(p[at[2]], 0, 59),
                       IF at[3] = 0 THEN <<255>> ELSE from_number(p[at[3]], 0, 59),
                       IF at[4] = 0 THEN <<255>> ELSE from_hundredths(p[at[4]])>>)
        match(sep, p) ==
            CASE Len(p) = 1 -> fields(p, <<1, 0, 0, 0>>)
              [] sep = <<58>> -> fields(p, <<1, 2, 0, 0>>)
              [] sep = <<46>> -> fields(p, <<0, 0, 1, 2>>)
              [] sep = <<58, 58>> -> fields(p, <<1, 2, 3, 0>>)
              [] sep = <<58, 46>> -> fields(p, <<0, 1, 2, 3>>)
              [] sep = <<58, 58, 46>> -> fields(p, <<1, 2, 3, 4>>)
              [] OTHER -> ErrB("value_error")
        separated(s) == match(s.separators, s.paths)
    IN  separated(separate(value, {58, 46}, 3))

\* value.split(sep=' ', maxsplit=2)
split2(value) ==
    LET blanks == {k \in 1..Len(value) : value[k] = 32}
        cut(first) ==
            LET later == {k \in blanks : k > first}
            IN  IF later = {} THEN <<SubSeq(value, 1, first - 1), SubSeq(value, first + 1, Len(value))>>
                ELSE <<SubSeq(value, 1, first - 1), SubSeq(value, first + 1, set_min(later) - 1),
                       SubSeq(value, set_min(later) + 1, Len(value))>>
    IN  IF blanks = {} THEN <<value>> ELSE cut(set_min(blanks))

\* int(text) of a str of ASCII characters: blanks around, a sign, digits
\* with single underscores between them; ok = FALSE is the ValueError
py_int(text) ==
    LET inner == {k \in 1..Len(text) : text[k] \notin {32, 9, 10, 11, 12, 13}}
        number(negative, body) ==
            LET kept == SelectSeq(body, LAMBDA ch : ch # 95)
            IN  IF /\ isdigit(kept)
                   /\ IsDigit(body[1]) /\ IsDigit(body[Len(body)])
                   /\ \A k \in 1..(Len(body) - 1) : ~(body[k] = 95 /\ body[k + 1] = 95)
                THEN [ok |-> TRUE, i |-> IF negative THEN -DecimalOf(kept) ELSE DecimalOf(kept)]
                ELSE [ok |-> FALSE, i |-> 0]
        signed(s) ==
            IF s # <<>> /\ s[1] \in {43, 45} THEN number(s[1] = 45, Tail(s))
            ELSE number(FALSE, s)
    IN  IF inner = {} THEN [ok |-> FALSE, i |-> 0]
        ELSE signed(SubSeq(text, set_min(inner), set_max(inner)))

\* pack('>h', value)
pack_h(value) == <<((value + 65536) % 65536) \div 256, (value + 65536) % 256>>

\* DateTime.from_str: the concatenation of None is the TypeError
DateTime_from_str(value) ==
    LET from_deviation(dev) ==
            LET number(n) ==
                    IF ~n.ok THEN ErrB("value_error")
                    ELSE IF -720 <= n.i /\ n.i <= 720 THEN OkB(pack_h(n.i))
                    ELSE ErrB("type_error")
            IN  IF dev = <<>> THEN OkB(<<128, 0>>)
                ELSE IF dev = <<45>> THEN OkB(<<0, 0>>)
                ELSE number(py_int(dev))
        joined(date, time, deviation) ==
            IF ~date.ok THEN date
            ELSE IF ~time.ok THEN time
            ELSE IF ~deviation.ok THEN deviation
            ELSE OkB(date.b \o time.b \o deviation.b \o <<255>>)
        match(parts) ==
            CASE Len(parts) = 3 ->
                    joined(strpdate(parts[1]), strptime(parts[2]), from_deviation(parts[3]))
              [] Len(parts) = 2 ->
                    joined(strpdate(parts[1]), strptime(parts[2]), OkB(<<128, 0>>))
              [] Len(parts) = 1 ->
                    joined(strpdate(parts[1]), OkB(<<255, 255, 255, 255>>), OkB(<<128, 0>>))
    IN  match(split2(value))

\* a host datetime: year, month, day, hour, minute, second, microsecond
\* and utcoffset() in minutes, NoOffset for a naive one
NoOffset == 1440

PyDatetime(fields, utcoffset) == [NoArg EXCEPT !.form = "datetime", !.l = fields, !.i = utcoffset]

\* DateTime.from_datetime: utcoffset().seconds is the offset modulo a day
DateTime_from_datetime(value) ==
    LET deviation == IF value.i = NoOffset THEN 32768 ELSE ((value.i * 60) % 86400) \div 60
    IN  <<value.l[1] \div 256, value.l[1] % 256, value.l[2], value.l[3], 255,
          value.l[4], value.l[5], value.l[6], value.l[7] \div 10000,
          deviation \div 256, deviation % 256, 255>>

\* from_str of DateTime, Date, Time
from_str(T, value) ==
    CASE T = "DateTime" -> DateTime_from_str(value)
      [] T = "Date" -> strpdate(value)
      [] T = "Time" -> strptime(value)

\* from_datetime of DateTime, Date, Time
from_datetime(T, value) ==
    CASE T = "DateTime" -> DateTime_from_datetime(value)
      [] T = "Date" -> <<(value.l[1] \div 256) % 256, value.l[1] % 256, value.l[2], value.l[3],
                         weekday(value.l[1], value.l[2], value.l[3]) + 1>>
      [] T = "Time" -> <<value.l[4], value.l[5], value.l[6], value.l[7] \div 10000>>

\* DEFAULT of DateTime, Date, Time
DateTime_DEFAULT(T) ==
    CASE T = "DateTime" -> <<7, 228, 1, 1, 255, 0, 0, 0, 0, 0, 180, 255>>
      [] T = "Date" -> <<7, 228, 1, 1, 3>>
      [] T = "Time" -> <<0, 0, 0, 0>>

\* the checks of DateTime.__init__, Date.__init__, Time.__init__ on the
\* contents r that __DateTime.__init__ has taken
DateTime_checked(T, r) ==
    LET raised(date_error, time_error) ==
            IF date_error # "" THEN Err(date_error)
            ELSE IF time_error # "" THEN Err(time_error)
            ELSE Ok(MkVal(T, r.b))
    IN  IF ~r.ok THEN Err(r.err)
        ELSE raised(IF T = "Time" THEN ""
                    ELSE check_date(IF T = "Date" THEN r.b ELSE SliceTo(r.b, 5)),
                    IF T = "Date" THEN "" ELSE check_time(T, r.b))

\* __DateTime.__init__ followed by the checks of DateTime, Date or Time,
\* for every argument but a str and a host datetime
DateTime_init(T, value) ==
    LET c == classes[T]
    IN  DateTime_checked(T,
            CASE value.form = "bytes" ->
                    IF SliceTo(value.b, 1) # <<c.TAG>> THEN ErrB("wrong_tag")
                    ELSE IF c.LENGTH <= Len(value.b) - 1
                         THEN OkB(Slice(value.b, 1, 1 + c.LENGTH))
                         ELSE ErrB("length")
              [] value.form = "None" -> OkB(DateTime_DEFAULT(T))
              [] value.form = "bytearray" -> OkB(value.b)
              [] isinstance(value, T) -> GetContents(value.v)
              [] value.form \notin {"str", "datetime"} -> ErrB("unsupported"))

\* __DateTime.__init__ followed by the checks, for a str and a host
\* datetime too
DateTime_init_host(T, value) ==
    CASE value.form = "str" -> DateTime_checked(T, from_str(T, value.b))
      [] value.form = "datetime" -> DateTime_checked(T, OkB(from_datetime(T, value)))
      [] OTHER -> DateTime_init(T, value)

\* str.zfill(width)
zfill(s, width) ==
    IF Len(s) >= width THEN s
    ELSE IF s # <<>> /\ s[1] \in {43, 45}
    THEN <<s[1]>> \o [k \in 1..(width - Len(s)) |-> 48] \o Tail(s)
    ELSE [k \in 1..(width - Len(s)) |-> 48] \o s

\* unpack('>h', two bytes)
unpack_h(b) == IF b[1] >= 128 THEN b[1] * 256 + b[2] - 65536 ELSE b[1] * 256 + b[2]

\* __Date.strfdate of the contents: d.m.Y-A, d.m.Y or d.m; the ValueError
\* is that of a weekday byte outside 1..7, 0xff
strfdate(contents) ==
    LET two(byte, high, low) ==
            CASE byte = 255 -> <<95, 95>>
              [] byte = 254 -> high
              [] byte = 253 -> low
              [] OTHER -> zfill(str_of_nat(byte), 2)
        short == <<<<1087, 1085>>, <<1074, 1090>>, <<1089, 1088>>, <<1095, 1090>>,
                   <<1087, 1090>>, <<1089, 1073>>, <<1074, 1089>>>>
        joined(month, month_day, day_name, value) ==
            OkB(month_day \o <<46>> \o month
                \o (IF value = -1 THEN IF day_name = <<>> THEN <<>> ELSE <<46, 95, 95, 95, 95>>
                    ELSE <<46>> \o zfill(str_of_int(value), 4))
                \o day_name)
    IN  IF contents[5] \notin 1..7 \cup {255} THEN ErrB("value_error")
        ELSE joined(two(contents[3], <<98, 101>>, <<101, 110>>),
                    two(contents[4], <<108, 97>>, <<112, 101>>),
                    IF contents[5] = 255 THEN <<>> ELSE <<45>> \o short[contents[5]],
                    unpack_h(SubSeq(contents, 1, 2)))

\* __Time.strftime of the contents: H:M:S.f, H:M:S or H:M
strftime(contents) ==
    LET t == IF Len(contents) = 4 THEN contents ELSE SubSeq(contents, 6, 9)
        two(byte) == IF byte = 255 THEN <<95, 95>> ELSE zfill(str_of_nat(byte), 2)
        hundredths == IF t[4] = 255 THEN <<>> ELSE <<46>> \o two(t[4])
        second == IF t[3] = 255 /\ t[4] = 255 THEN <<>> ELSE <<58>> \o two(t[3])
    IN  two(t[1]) \o <<58>> \o two(t[2]) \o second \o hundredths

\* __str__ of DateTime, Date, Time
DateTime_str(self) ==
    LET dated(date) ==
            IF ~date.ok THEN date
            ELSE OkB(date.b \o <<32>> \o strftime(self.contents) \o <<32>>
                     \o (IF unpack_h(SubSeq(self.contents, 10, 11)) = -32768 THEN <<>>
                         ELSE str_of_int(unpack_h(SubSeq(self.contents, 10, 11)))))
    IN  CASE self.T = "DateTime" -> dated(strfdate(self.contents))
          [] self.T = "Date" -> strfdate(self.contents)
          [] self.T = "Time" -> OkB(strftime(self.contents))

\* parse of DateTime, Date, Time: DateTime.parse names self, which a
\* classmethod has not; Date.parse names cls.strptime, which Date has not
DateTime_parse(T, value) ==
    CASE T = "DateTime" -> Err("name_error")
      [] T = "Date" -> Err("attribute_error")
      [] T = "Time" ->
            LET built(r) ==
                    IF r.ok THEN DateTime_init(T, PyByteArray(r.b)) ELSE Err(r.err)
            IN  built(strptime(value))

(***************************************************************************)
(* The Tag Registry.                                                       *)
(***************************************************************************)
\* __types: the registered tag bytes and the class registered under each
types ==
    [t \in {0, 1, 2, 3, 4, 5, 6, 9, 12, 13, 15, 16, 17, 18, 19, 20, 22, 23, 24, 25, 32, 33} |->
        CASE t = 0 -> "NullData"
          [] t = 1 -> "Array"
          [] t = 2 -> "Structure"
          [] t = 3 -> "Boolean"
          [] t = 4 -> "BitString"
          [] t = 5 -> "DoubleLong"
          [] t = 6 -> "DoubleLongUnsigned"
          [] t = 9 -> "OctetString"
          [] t = 12 -> "Utf8String"
          [] t = 13 -> "Bcd"
          [] t = 15 -> "Integer"
          [] t = 16 -> "Long"
          [] t = 17 -> "Unsigned"
          [] t = 18 -> "LongUnsigned"
          [] t = 19 -> "Long64"
          [] t = 20 -> "Long64Unsigned"
          [] t = 22 -> "Enum"
          [] t = 23 -> "Float32"
          [] t = 24 -> "Float64"
          [] t = 25 -> "DateTime"
          [] t = 32 -> "Date"
          [] t = 33 -> "Time"]

\* get_common_data_type_from: the class, or "" with the ValueError
get_common_data_type_from(tag) ==
    IF tag # <<>> /\ tag[1] \in DOMAIN types
    THEN [ok |-> TRUE, T |-> types[tag[1]], err |-> ""]
    ELSE [ok |-> FALSE, T |-> "", err |-> "unknown_type"]

\* the classes the module defines with a tag of their own
ConcreteTypes ==
    {"NullData", "Array", "Structure", "Boolean", "BitString", "DoubleLong",
     "DoubleLongUnsigned", "OctetString", "VisibleString", "Utf8String", "Bcd",
     "Integer", "Long", "Unsigned", "LongUnsigned", "Long64", "Long64Unsigned",
     "Enum", "Float32", "Float64", "DateTime", "Date", "Time"}

(***************************************************************************)
(* Encoding, and construction of any class.                                *)
(***************************************************************************)
RECURSIVE has_encoding(_)
\* v.encoding can be computed: the attributes it reads are set
has_encoding(v) ==
    LET kind == classes[v.T].kind
    IN  CASE kind = "NullData" -> TRUE
          [] kind \in {"Array", "Structure"} ->
                \A k \in 1..Len(v.values) : has_encoding(v.values[k])
          [] kind = "BitString" -> v.contents \notin {PyNone, NoAttr} /\ v.length >= 0
          [] OTHER -> v.contents \notin {PyNone, NoAttr}

RECURSIVE encoding(_)
RECURSIVE join_encodings(_)
\* b''.join(el.encoding for el in values)
join_encodings(values) ==
    IF values = <<>> THEN <<>> ELSE encoding(Head(values)) \o join_encodings(Tail(values))

\* the encoding property of each class
encoding(v) ==
    LET c == classes[v.T]
    IN  CASE c.kind = "NullData" -> <<0>>
          [] c.kind \in {"Array", "Structure"} ->
                <<c.TAG>> \o encode_length(Digits(Len(v.values))) \o join_encodings(v.values)
          [] c.kind = "String" ->
                <<c.TAG>> \o encode_length(Digits(Len(v.contents))) \o v.contents
          [] c.kind = "BitString" ->
                <<c.TAG>> \o encode_length(Digits(v.length)) \o v.contents
          [] OTHER -> <<c.TAG>> \o v.contents

\* CommonDataType.__eq__ between two values
cdt_eq(a, b) == encoding(a) = encoding(b)

\* the iterations of "for i in range(length)" that a buffer of n bytes can
\* feed: each element takes at least one byte, so n + 1 reach the end
range_upto(length, n) ==
    IF LengthAtMost(length, n) THEN IntOfUnsigned(length) ELSE n + 1

RECURSIVE New(_, _)
RECURSIVE get_instance_and_pdu(_, _)
RECURSIVE Array_init(_, _, _)
RECURSIVE Array_from_elements(_, _, _, _, _)
RECURSIVE Structure_init(_, _)
RECURSIVE Structure_infer(_, _, _)
RECURSIVE Structure_from_content(_, _, _)
RECURSIVE Structure_from_sequence(_, _, _)

\* get_instance_and_pdu: the instance and the rest of the buffer
get_instance_and_pdu(meta, value) ==
    LET rest(r) ==
            IF ~r.ok THEN [ok |-> FALSE, v |-> NoValue, pdu |-> <<>>, err |-> r.err]
            ELSE IF ~has_encoding(r.v)
                 THEN [ok |-> FALSE, v |-> NoValue, pdu |-> <<>>, err |-> "no_attribute"]
            ELSE [ok |-> TRUE, v |-> r.v, pdu |-> SliceFrom(value, Len(encoding(r.v))),
                  err |-> ""]
    IN  rest(New(meta, PyBytes(value)))

\* the loop of Array.__init__ over a bytes buffer: number elements of TYPE
\* are decoded from pdu and appended to the array self
Array_from_elements(self, TYPE, number, pdu, unique) ==
    LET append(e) ==
            IF ~e.ok THEN Err(e.err)
            ELSE IF unique /\ \E k \in 1..Len(self.values) : cdt_eq(e.v, self.values[k])
                 THEN Err("exists")
            ELSE Array_from_elements([self EXCEPT !.values = Append(@, e.v)],
                                     TYPE, number - 1, e.pdu, unique)
    IN  IF number = 0 THEN Ok(self)
        ELSE IF pdu = <<>> THEN Err("length")
        ELSE append(get_instance_and_pdu(TYPE, pdu))

\* Array.__init__(value, type_) for a class T of Array; a list holds values
Array_init(T, value, type_) ==
    LET TYPE0 == IF type_ # "None" THEN type_ ELSE classes[T].TYPE
        empty == [MkVal(T, <<>>) EXCEPT !.TYPE = TYPE0]
        from_bytes(lp) ==
            LET elements(TYPE) ==
                    Array_from_elements([empty EXCEPT !.TYPE = TYPE], TYPE,
                                        range_upto(lp.length, Len(lp.pdu)), lp.pdu,
                                        classes[T].unique)
                typed(found) ==
                    IF ~found.ok THEN Err(found.err) ELSE elements(found.T)
            IN  IF ~lp.ok THEN Err("empty")
                ELSE typed(IF lp.length # <<>> /\ TYPE0 = "None"
                           THEN get_common_data_type_from(SliceTo(lp.pdu, 1))
                           ELSE [ok |-> TRUE, T |-> TYPE0, err |-> ""])
    IN  CASE value.form = "list" /\ \A k \in 1..Len(value.l) : value.l[k].form = "cdt" ->
                Ok([empty EXCEPT !.values = [k \in 1..Len(value.l) |-> value.l[k].v]])
          [] value.form = "bytes" ->
                IF value.b = <<>> THEN Err("empty")
                ELSE IF SliceTo(value.b, 1) # <<classes[T].TAG>> THEN Err("wrong_tag")
                ELSE from_bytes(get_length_and_pdu(SliceFrom(value.b, 1)))
          [] value.form = "None" -> Ok(empty)
          [] isinstance(value, "Array") ->
                IF has_encoding(value.v) THEN Array_init(T, PyBytes(encoding(value.v)), type_)
                ELSE Err("no_attribute")
          [] value.form \notin {"list"} -> Err("unsupported")

\* Structure.from_bytes without ELEMENTS: each field typed by the registry
Structure_infer(self, number, pdu) ==
    LET typed(found) ==
            LET field(e) ==
                    IF ~e.ok THEN Err(e.err)
                    ELSE Structure_infer([self EXCEPT !.values = Append(@, e.v),
                                                      !.ELEMENTS = Append(@, found.T)],
                                         number - 1, e.pdu)
            IN  IF ~found.ok THEN Err(found.err)
                ELSE field(get_instance_and_pdu(found.T, pdu))
    IN  IF number = 0 THEN Ok([self EXCEPT !.hasELEMENTS = TRUE])
        ELSE typed(get_common_data_type_from(SliceTo(pdu, 1)))

\* Structure.from_content: one field per element of ELEMENTS[k..]
Structure_from_content(self, k, value) ==
    LET field(e) ==
            IF ~e.ok THEN Err(e.err)
            ELSE Structure_from_content([self EXCEPT !.values = Append(@, e.v)], k + 1, e.pdu)
    IN  IF k > Len(self.ELEMENTS) THEN Ok(self)
        ELSE field(get_instance_and_pdu(self.ELEMENTS[k], value))

\* Structure.from_sequence past the length test: ELEMENTS[k].TYPE(sequence[k])
Structure_from_sequence(self, k, sequence) ==
    LET field(e) ==
            IF ~e.ok THEN Err(e.err)
            ELSE Structure_from_sequence([self EXCEPT !.values = Append(@, e.v)], k + 1,
                                         sequence)
    IN  IF k > Len(self.ELEMENTS) THEN Ok(self)
        ELSE field(New(self.ELEMENTS[k], sequence[k]))

\* Structure.__init__ with from_bytes; DEFAULT is None; a list holds values
Structure_init(T, value) ==
    LET c == classes[T]
        self == [MkVal(T, <<>>) EXCEPT !.hasELEMENTS = c.hasELEMENTS, !.ELEMENTS = c.ELEMENTS]
        from_bytes(b) ==
            LET fields(l) ==
                    IF SliceTo(b, 1) # <<c.TAG>> THEN Err("wrong_tag")
                    ELSE IF ~l.ok THEN Err("empty")
                    ELSE IF ~c.hasELEMENTS
                         THEN Structure_infer(self, range_upto(l.length, Len(l.pdu)), l.pdu)
                    ELSE IF l.length # Digits(Len(c.ELEMENTS)) THEN Err("length")
                    ELSE Structure_from_content(self, 1, l.pdu)
            IN  fields(get_length_and_pdu(SliceFrom(b, 1)))
    IN  CASE value.form = "list" /\ \A k \in 1..Len(value.l) : value.l[k].form = "cdt" ->
                Ok([self EXCEPT !.values = [k \in 1..Len(value.l) |-> value.l[k].v]])
          [] value.form = "bytes" -> from_bytes(value.b)
          [] value.form = "tuple" ->
                IF ~c.hasELEMENTS THEN Err("no_attribute")
                ELSE IF Len(value.l) # Len(c.ELEMENTS) THEN Err("length")
                ELSE Structure_from_sequence(self, 1, value.l)
          [] value.form = "None" ->
                IF ~c.hasELEMENTS THEN Err("no_attribute")
                ELSE Structure_from_sequence(self, 1, [k \in 1..Len(c.ELEMENTS) |-> NoArg])
          [] value.form = "bytearray" ->
                IF ~c.hasELEMENTS THEN Err("no_attribute")
                ELSE Structure_from_content(self, 1, value.b)
          [] isinstance(value, "Structure") ->
                IF ~has_encoding(value.v) THEN Err("no_attribute")
                ELSE IF ~c.hasELEMENTS THEN from_bytes(encoding(value.v))
                ELSE Structure_from_content(self, 1, join_encodings(value.v.values))
          [] value.form \notin {"list"} -> Err("unsupported")

\* T(value): the constructor of class T
New(T, value) ==
    LET kind == classes[T].kind
    IN  CASE kind = "Digital" -> Digital_init(T, value)
          [] kind = "Enum" -> Enum_init(T, value)
          [] kind = "Boolean" -> Boolean_init(T, value)
          [] kind = "String" -> String_init(T, value)
          [] kind = "BitString" -> BitString_init(T, value)
          [] kind = "Bcd" -> Bcd_init(T, value)
          [] kind = "Float" -> Float_init(T, value)
          [] kind = "NullData" -> NullData_init(T, value)
          [] kind \in {"DateTime", "Date", "Time"} -> DateTime_init(T, value)
          [] kind = "Array" -> Array_init(T, value, "None")
          [] kind = "Structure" -> Structure_init(T, value)
          \* CompactArray.__init__ passes three arguments to Array.__init__
          [] kind = "CompactArray" -> Err("type_error")

\* Boolean.parse
Boolean_parse(value) ==
    New("Boolean", PyByteArray(IF value = <<102, 97, 108, 115, 101>> THEN <<0>> ELSE <<1>>))

(***************************************************************************)
(* Transcripts: to_transcript and parse.  The integers of eight bytes are  *)
(* beyond 32 bits, so an int is kept as its magnitude and its sign: the    *)
(* magnitude is the bytes of int.to_bytes without leading zeros.           *)
(***************************************************************************)
RECURSIVE mag_div10(_, _)
\* divmod(m, 10) of a magnitude m, r the remainder carried in: <<m // 10, m % 10>>
mag_div10(m, r) ==
    IF m = <<>> THEN <<<<>>, r>>
    ELSE LET rest(q) == <<<<(r * 256 + Head(m)) \div 10>> \o q[1], q[2]>>
         IN  rest(mag_div10(Tail(m), (r * 256 + Head(m)) % 10))

RECURSIVE mag_digits(_)
\* the decimal digits of a magnitude, none for 0
mag_digits(m) ==
    IF m = <<>> THEN <<>>
    ELSE LET step(q) == mag_digits(StripZeros(q[1])) \o <<48 + q[2]>>
         IN  step(mag_div10(m, 0))

RECURSIVE mag_muladd(_, _)
\* m * 10 + c of a magnitude m
mag_muladd(m, c) ==
    IF m = <<>> THEN Digits(c)
    ELSE mag_muladd(SubSeq(m, 1, Len(m) - 1), (m[Len(m)] * 10 + c) \div 256)
            \o <<(m[Len(m)] * 10 + c) % 256>>

RECURSIVE mag_of_digits(_)
\* the magnitude that a str of decimal digits writes
mag_of_digits(s) ==
    IF s = <<>> THEN <<>>
    ELSE mag_muladd(mag_of_digits(SubSeq(s, 1, Len(s) - 1)), s[Len(s)] - 48)

RECURSIVE mag_inc(_)
\* m + 1
mag_inc(m) ==
    IF m = <<>> THEN <<1>>
    ELSE IF m[Len(m)] < 255 THEN [m EXCEPT ![Len(m)] = @ + 1]
    ELSE mag_inc(SubSeq(m, 1, Len(m) - 1)) \o <<0>>

RECURSIVE mag_dec(_)
\* m - 1 of a magnitude m above 0
mag_dec(m) ==
    IF m[Len(m)] > 0 THEN StripZeros([m EXCEPT ![Len(m)] = @ - 1])
    ELSE StripZeros(mag_dec(SubSeq(m, 1, Len(m) - 1)) \o <<255>>)

\* the bits of a magnitude, the first of them 1
mag_bits(m) ==
    StripZeros([k \in 1..(8 * Len(m)) |->
                   (m[(k - 1) \div 8 + 1] \div Pow2(7 - ((k - 1) % 8))) % 2])

RECURSIVE bits_inc(_)
\* the bits of the number one above
bits_inc(b) ==
    IF b = <<>> THEN <<1>>
    ELSE IF b[Len(b)] = 0 THEN [b EXCEPT ![Len(b)] = 1]
    ELSE bits_inc(SubSeq(b, 1, Len(b) - 1)) \o <<0>>

\* the magnitude that a sequence of bits writes
mag_of_bits(b) ==
    LET n == (Len(b) + 7) \div 8
        bit(i) == IF i >= 1 THEN b[i] ELSE 0
    IN  StripZeros([j \in 1..n |->
            128 * bit(Len(b) - 8 * (n - j) - 7) + 64 * bit(Len(b) - 8 * (n - j) - 6)
            + 32 * bit(Len(b) - 8 * (n - j) - 5) + 16 * bit(Len(b) - 8 * (n - j) - 4)
            + 8 * bit(Len(b) - 8 * (n - j) - 3) + 4 * bit(Len(b) - 8 * (n - j) - 2)
            + 2 * bit(Len(b) - 8 * (n - j) - 1) + bit(Len(b) - 8 * (n - j))])

\* int(float(m)): the nearest number of 53 significant bits, a tie to the
\* one whose last bit is 0
float_of_mag(m) ==
    LET round(b) ==
            LET kept == SubSeq(b, 1, 53)
                rest == SubSeq(b, 54, Len(b))
                up == rest[1] = 1 /\ (kept[53] = 1 \/ \E k \in 2..Len(rest) : rest[k] = 1)
            IN  mag_of_bits((IF up THEN bits_inc(kept) ELSE kept) \o Zeros(Len(rest)))
    IN  IF Len(mag_bits(m)) <= 53 THEN m ELSE round(mag_bits(m))

\* Digital.__str__: str(int.from_bytes(contents, 'big', signed=SIGNED))
Digital_str(self) ==
    IF classes[self.T].SIGNED /\ self.contents # <<>> /\ self.contents[1] >= 128
    THEN <<45>> \o mag_digits(mag_inc(StripZeros([k \in 1..Len(self.contents) |->
                                                     255 - self.contents[k]])))
    ELSE IF StripZeros(self.contents) = <<>> THEN <<48>>
    ELSE mag_digits(StripZeros(self.contents))

\* Digital.parse for the str of an int: cls(bytearray(cls.from_int(float(value))))
Digital_parse(T, value) ==
    LET c == classes[T]
        from_int(negative, m) ==
            IF negative /\ m # <<>>
            THEN IF c.SIGNED /\ (Len(mag_dec(m)) < c.LENGTH
                                 \/ (Len(mag_dec(m)) = c.LENGTH /\ mag_dec(m)[1] < 128))
                 THEN New(T, PyByteArray([k \in 1..c.LENGTH |->
                                             255 - to_bytes(mag_dec(m), c.LENGTH)[k]]))
                 ELSE Err("out_of_range")
            ELSE IF Len(m) < c.LENGTH \/ (Len(m) = c.LENGTH /\ (~c.SIGNED \/ m[1] < 128))
                 THEN New(T, PyByteArray(to_bytes(m, c.LENGTH)))
                 ELSE Err("out_of_range")
        digits(negative, s) ==
            IF s # <<>> /\ \A k \in 1..Len(s) : IsDigit(s[k])
            THEN from_int(negative, float_of_mag(StripZeros(mag_of_digits(s))))
            ELSE Err("not_a_number")
    IN  IF value # <<>> /\ value[1] = 45 THEN digits(TRUE, Tail(value))
        ELSE digits(FALSE, value)

(***************************************************************************)
(* DateTime.get_left_nearest_datetime and get_right_nearest_datetime.  A   *)
(* datetime.datetime is a record of its fields, hs its microsecond in      *)
(* hundredths of a second and off the minutes of its utcoffset.            *)
(***************************************************************************)
datetime(year, month, day, hour, minute, second, hs, off) ==
    [year |-> year, month |-> month, day |-> day, hour |-> hour, minute |-> minute,
     second |-> second, hs |-> hs, off |-> off]

\* what a search returns: st is "ret" with the datetime dt, "none" for None,
\* or the exception raised
Found(dt) == [st |-> "ret", dt |-> dt]
NotFound(st) == [st |-> st, dt |-> datetime(0, 0, 0, 0, 0, 0, 0, 0)]

\* DateTime.deviation: unpack(">h", contents[9:11])
DateTime_deviation(self) ==
    IF self.contents[10] >= 128
    THEN (self.contents[10] - 256) * 256 + self.contents[11]
    ELSE self.contents[10] * 256 + self.contents[11]

\* DateTime.to_datetime; "value_error" when datetime.datetime() raises
DateTime_to_datetime(self) ==
    LET c == self.contents
        year == IF c[1] * 256 + c[2] # 65535 THEN c[1] * 256 + c[2] ELSE 1
        month == IF c[3] \in {255, 254, 253} THEN 1 ELSE c[3]
        day == IF c[4] \in {255, 254, 253} THEN 1 ELSE c[4]
        off == IF DateTime_deviation(self) = -32768 THEN 0 ELSE DateTime_deviation(self)
    IN  IF valid_date(year, month, day)
        THEN Found(datetime(year, month, day,
                            IF c[6] # 255 THEN c[6] ELSE 0, IF c[7] # 255 THEN c[7] ELSE 0,
                            IF c[8] # 255 THEN c[8] ELSE 0, IF c[9] # 255 THEN c[9] ELSE 0,
                            off))
        ELSE NotFound("value_error")

\* date.toordinal()
toordinal(y, m, d) ==
    (y - 1) * 365 + (y - 1) \div 4 - (y - 1) \div 100 + (y - 1) \div 400
    + days_before_month(y, m) + d

\* a <= b of two aware datetimes: of their instants
datetime_le(a, b) ==
    LET day(x) == toordinal(x.year, x.month, x.day) + (x.hour * 60 + x.minute - x.off) \div 1440
        time(x) == ((x.hour * 60 + x.minute - x.off) % 1440) * 6000 + x.second * 100 + x.hs
    IN  day(a) < day(b) \/ (day(a) = day(b) /\ time(a) <= time(b))

\* res.replace(year=.., month=.., day=..) of one field; -1 stands for a
\* range object, which is no integer
replace_date(res, year, month, day) ==
    IF -1 \in {year, month, day} THEN NotFound("type_error")
    ELSE IF ~valid_date(year, month, day) THEN NotFound("value_error")
    ELSE Found([res EXCEPT !.year = year, !.month = month, !.day = day])

\* range(a, b, -1) and range(a, b) as sequences
range_down(a, b) == [k \in 1..(a - b) |-> a - k + 1]
range_up(a, b) == [k \in 1..(b - a) |-> a + k - 1]

\* the weekday test of get_left_nearest_date
left_weekday_differs(self, res) ==
    self.contents[5] # 255 /\ self.contents[5] # weekday(res.year, res.month, res.day) + 1

\* the weekday test of get_right_nearest_date: self.weekday is an int,
\* never None
right_weekday_differs(self, res) ==
    self.contents[5] # weekday(res.year, res.month, res.day) + 1

RECURSIVE nearest_days(_, _, _, _, _, _)
\* for day in days: the loop from its k-th turn on; st "next" when the
\* loop ends without a return
nearest_days(self, left, point, res, days, k) ==
    IF k > Len(days) THEN [st |-> "next", dt |-> res]
    ELSE LET turn(r) ==
                 IF r.st # "ret" THEN r
                 ELSE IF left /\ ~datetime_le(r.dt, point)
                 THEN nearest_days(self, left, point, r.dt, days, k + 1)
                 ELSE IF ~left /\ ~datetime_le(point, r.dt)
                 THEN nearest_days(self, left, point, r.dt, days, k + 1)
                 ELSE IF (IF left THEN left_weekday_differs(self, r.dt)
                          ELSE right_weekday_differs(self, r.dt))
                 THEN nearest_days(self, left, point, r.dt, days, k + 1)
                 ELSE r
         IN  turn(replace_date(res, res.year, res.month, days[k]))

\* days after the loop over them: range(..) if self.day == 0xff else self.day,
\* is a tuple of one element
days_again(self) == IF self.contents[4] = 255 THEN <<-1>> ELSE <<self.contents[4]>>
months_again(self) == IF self.contents[3] = 255 THEN <<-1>> ELSE <<self.contents[3]>>

RECURSIVE nearest_months(_, _, _, _, _, _, _)
\* for month in months: the loop from its k-th turn on, days the value of
\* the variable days; st "next" comes with the days left behind
nearest_months(self, left, point, res, months, k, days) ==
    IF k > Len(months) THEN [st |-> "next", dt |-> res, days |-> days]
    ELSE LET turn(r) ==
                 LET inner(d) ==
                         IF d.st # "next" THEN d
                         ELSE nearest_months(self, left, point, d.dt, months, k + 1,
                                             days_again(self))
                 IN  IF r.st # "ret" THEN r
                     ELSE inner(nearest_days(self, left, point, r.dt, days, 1))
         IN  turn(replace_date(res, res.year, months[k], res.day))

RECURSIVE nearest_years(_, _, _, _, _, _, _, _)
\* for year in ..: the loop from the year on to last_year, the last of the
\* range.  With the month and the day specified every turn replaces the
\* year alone, so the walk over the years is the first year, a hundred
\* years at a time, whose turn does not end in the next one.
nearest_years(self, left, point, res, year, last_year, months, days) ==
    LET turn(r) ==
            LET inner(m) ==
                    IF m.st # "next" THEN m
                    ELSE nearest_years(self, left, point, m.dt,
                                       IF left THEN year - 1 ELSE year + 1, last_year,
                                       months_again(self), m.days)
            IN  IF r.st # "ret" THEN r
                ELSE inner(nearest_months(self, left, point, r.dt, months, 1, days))
        alone(y) ==
            LET replaced(r) ==
                    IF r.st # "ret" THEN r
                    ELSE nearest_months(self, left, point, r.dt, months, 1, days)
            IN  replaced(replace_date(res, y, res.month, res.day))
        walk(century) ==
            IF century # {}
            THEN alone(IF left THEN set_max(century) ELSE set_min(century))
            ELSE nearest_years(self, left, point, res,
                               IF left THEN year - 100 ELSE year + 100, last_year,
                               months, days)
    IN  IF (left /\ year < last_year) \/ (~left /\ year > last_year) THEN NotFound("none")
        ELSE IF year # last_year /\ self.contents[3] # 255 /\ self.contents[4] # 255
        THEN walk({y \in (IF left THEN Max(last_year, year - 99)..year
                          ELSE year..(-Max(-last_year, -year - 99))) :
                      alone(y).st # "next"})
        ELSE turn(replace_date(res, year, res.month, res.day))

\* DateTime.get_left_nearest_date
get_left_nearest_date(self, point) ==
    LET search(res) ==
            IF res.st # "ret" THEN res
            ELSE nearest_years(
                     self, TRUE, point, res.dt,
                     IF self.contents[1] * 256 + self.contents[2] = 65535 THEN point.year
                     ELSE self.contents[1] * 256 + self.contents[2],
                     IF self.contents[1] * 256 + self.contents[2] = 65535 THEN 2
                     ELSE self.contents[1] * 256 + self.contents[2],
                     IF self.contents[3] = 255 THEN range_down(point.month, 0)
                     ELSE <<self.contents[3]>>,
                     IF self.contents[4] = 255 THEN range_down(point.day, 0)
                     ELSE <<self.contents[4]>>)
    IN  search(DateTime_to_datetime(self))

\* DateTime.get_right_nearest_date
get_right_nearest_date(self, point) ==
    LET search(res) ==
            IF res.st # "ret" THEN res
            ELSE nearest_years(
                     self, FALSE, point, res.dt,
                     IF self.contents[1] * 256 + self.contents[2] = 65535 THEN point.year
                     ELSE self.contents[1] * 256 + self.contents[2],
                     IF self.contents[1] * 256 + self.contents[2] = 65535 THEN 9998
                     ELSE self.contents[1] * 256 + self.contents[2],
                     IF self.contents[3] = 255 THEN range_up(point.month, 12)
                     ELSE <<self.contents[3]>>,
                     IF self.contents[4] = 255 THEN range_up(point.day, 32)
                     ELSE <<self.contents[4]>>)
    IN  search(DateTime_to_datetime(self))

\* DateTime.get_right_nearest_datetime.  The four loops visit the times of
\* the day in ascending order and return the first that is not before the
\* point, so a loop reaches a return in the turn x exactly if the last time
\* it visits in that turn is not before the point.
get_right_nearest_datetime(self, point) ==
    LET c == self.contents
        search(res) ==
            LET this_day == <<res.year, res.month, res.day>>
                                = <<point.year, point.month, point.day>>
                hours == IF c[6] # 255 THEN {c[6]}
                         ELSE (IF this_day THEN point.hour ELSE 0)..23
                minutes(h) ==
                    IF c[7] # 255 THEN {c[7]}
                    ELSE (IF this_day /\ h = point.hour THEN point.minute ELSE 0)..59
                seconds(h, m) ==
                    IF c[8] # 255 THEN {c[8]}
                    ELSE (IF this_day /\ h = point.hour /\ m = point.minute
                          THEN point.second ELSE 0)..59
                \* range(.., 990000) of microseconds, in hundredths
                hundredths(h, m, s) ==
                    IF c[9] # 255 THEN {c[9]}
                    ELSE (IF this_day /\ h = point.hour /\ m = point.minute
                             /\ s = point.second
                          THEN point.hs ELSE 0)..98
                at(h, m, s, x) ==
                    [res EXCEPT !.hour = h, !.minute = m, !.second = s, !.hs = x]
                returns(h, m, s, x) == datetime_le(point, at(h, m, s, x))
                in_second(h, m, s) ==
                    /\ hundredths(h, m, s) # {}
                    /\ returns(h, m, s, set_max(hundredths(h, m, s)))
                in_minute(h, m) == in_second(h, m, set_max(seconds(h, m)))
                in_hour(h) == in_minute(h, set_max(minutes(h)))
                first(h) ==
                    LET m == set_min({y \in minutes(h) : in_minute(h, y)})
                        s == set_min({y \in seconds(h, m) : in_second(h, m, y)})
                    IN  at(h, m, s, set_min({y \in hundredths(h, m, s) : returns(h, m, s, y)}))
            IN  IF \A h \in hours : ~in_hour(h) THEN NotFound("none")
                ELSE Found(first(set_min({h \in hours : in_hour(h)})))
        dated(r) == IF r.st # "ret" THEN r ELSE search(r.dt)
    IN  dated(get_right_nearest_date(self, point))

\* DateTime.get_left_nearest_datetime.  The four loops visit the times of
\* the day in descending order and return the first that is not after the
\* point, so a loop reaches a return in the turn x exactly if the last time
\* it visits in that turn is not after the point.
get_left_nearest_datetime(self, point) ==
    LET c == self.contents
        search(res) ==
            LET this_day == <<res.year, res.month, res.day>>
                                = <<point.year, point.month, point.day>>
                hours == IF c[6] # 255 THEN {c[6]}
                         ELSE 0..(IF this_day THEN point.hour ELSE 23)
                minutes(h) ==
                    IF c[7] # 255 THEN {c[7]}
                    ELSE 0..(IF this_day /\ h = point.hour THEN point.minute ELSE 59)
                seconds(h, m) ==
                    IF c[8] # 255 THEN {c[8]}
                    ELSE 0..(IF this_day /\ h = point.hour /\ m = point.minute
                             THEN point.second ELSE 59)
                \* range(.., -1, -10000) of microseconds, in hundredths
                hundredths(h, m, s) ==
                    IF c[9] # 255 THEN {c[9]}
                    ELSE 0..(IF this_day /\ h = point.hour /\ m = point.minute
                                /\ s = point.second
                             THEN point.hs ELSE 99)
                at(h, m, s, x) ==
                    [res EXCEPT !.hour = h, !.minute = m, !.second = s, !.hs = x]
                returns(h, m, s, x) == datetime_le(at(h, m, s, x), point)
                in_second(h, m, s) == returns(h, m, s, set_min(hundredths(h, m, s)))
                in_minute(h, m) == in_second(h, m, set_min(seconds(h, m)))
                in_hour(h) == in_minute(h, set_min(minutes(h)))
                first(h) ==
                    LET m == set_max({y \in minutes(h) : in_minute(h, y)})
                        s == set_max({y \in seconds(h, m) : in_second(h, m, y)})
                    IN  at(h, m, s, set_max({y \in hundredths(h, m, s) : returns(h, m, s, y)}))
            IN  IF \A h \in hours : ~in_hour(h) THEN NotFound("none")
                ELSE Found(first(set_max({h \in hours : in_hour(h)})))
        dated(r) == IF r.st # "ret" THEN r ELSE search(r.dt)
    IN  dated(get_left_nearest_date(self, point))

(***************************************************************************)
(* Operations on a value.  An operation returns the value as it leaves it, *)
(* whether it returned or raised, the callbacks it invoked with the value  *)
(* each of them saw, and what it returned.                                 *)
(***************************************************************************)
Res(self, ok, err, events, ret) ==
    [obj |-> self, ok |-> ok, err |-> err, events |-> events, ret |-> ret]

\* a callback invoked while the value was seen
Event(cb, seen) == [cb |-> cb, seen |-> seen]

\* the call of cb_preset, if registered
PreEvents(self) == IF self.cb_preset THEN <<Event("pre", self)>> ELSE <<>>

\* the call of cb_post_set, if registered
PostEvents(self) == IF self.cb_post_set THEN <<Event("post", self)>> ELSE <<>>

\* SimpleDataType.set with the callbacks removed once invoked
SimpleDataType_set_M(self, value) ==
    LET replace(new_value) ==
            LET invoke(after) ==
                    Res(after, TRUE, "",
                        PreEvents(self) \o PostEvents([after EXCEPT !.cb_post_set = self.cb_post_set]),
                        NoValue)
            IN  IF ~new_value.ok THEN Res(self, FALSE, new_value.err, <<>>, NoValue)
                ELSE invoke([self EXCEPT !.contents = new_value.v.contents,
                                         !.cb_preset = FALSE, !.cb_post_set = FALSE])
    IN  replace(New(self.T, value))

\* SimpleDataType.set; NullData.contents is a property without setter
SimpleDataType_set(self, value) ==
    LET replace(new_value) ==
            LET invoke(after) ==
                    Res(after, TRUE, "", PreEvents(self) \o PostEvents(after), NoValue)
            IN  IF ~new_value.ok THEN Res(self, FALSE, new_value.err, <<>>, NoValue)
                ELSE IF new_value.v.contents = NoAttr \/ classes[self.T].kind = "NullData"
                     THEN Res(self, FALSE, "no_attribute", PreEvents(self), NoValue)
                ELSE invoke([self EXCEPT !.contents = new_value.v.contents])
    IN  replace(New(self.T, value))

\* BitString.set with cb_preset invoked before the new instance is built
BitString_set_M(self, value) ==
    LET replace(new_value) ==
            LET invoke(after) ==
                    Res(after, TRUE, "", PreEvents(self) \o PostEvents(after), NoValue)
            IN  IF ~new_value.ok THEN Res(self, FALSE, new_value.err, PreEvents(self), NoValue)
                ELSE invoke([self EXCEPT !.contents = new_value.v.contents,
                                         !.length = new_value.v.length])
    IN  replace(BitString_init(self.T, value))

\* BitString.set
BitString_set(self, value) ==
    LET replace(new_value) ==
            LET invoke(after) ==
                    Res(after, TRUE, "", PreEvents(self) \o PostEvents(after), NoValue)
            IN  IF ~new_value.ok THEN Res(self, FALSE, new_value.err, <<>>, NoValue)
                ELSE IF new_value.v.length = NoLength
                     THEN Res([self EXCEPT !.contents = new_value.v.contents], FALSE,
                              "no_attribute", PreEvents(self), NoValue)
                ELSE invoke([self EXCEPT !.contents = new_value.v.contents,
                                         !.length = new_value.v.length])
    IN  replace(BitString_init(self.T, value))

\* BitString.parse with set_length(8 * len(contents)) for set_length(length)
BitString_parse_M(value) ==
    LET new(r) ==
            IF ~r.ok THEN Err(r.err)
            ELSE Ok([MkVal("BitString", r.b) EXCEPT !.length = 8 * Len(r.b)])
    IN  new(BitString_from_str(value))

\* BitString.parse for a str of digits and letters; ok = FALSE is the
\* ValueError of int(.., base=2)
BitString_parse(value) ==
    LET new(r) ==
            IF ~r.ok THEN Err(r.err)
            ELSE Ok([MkVal("BitString", r.b) EXCEPT !.length = Len(value)])
    IN  new(BitString_from_str(value))

\* list(self) by BitString.__iter__: the bits of the contents, the first
\* len(self) of them
BitString_iter(self) ==
    [k \in 1..(IF self.length < 8 * Len(self.contents) THEN self.length
               ELSE 8 * Len(self.contents)) |->
        (self.contents[(k - 1) \div 8 + 1] \div Pow2(7 - ((k - 1) % 8))) % 2]

\* BitString.__str__ and to_transcript
BitString_str(self) == [k \in 1..Len(BitString_iter(self)) |-> 48 + BitString_iter(self)[k]]

RECURSIVE fromhex_blanks(_)
\* bytes.fromhex: pairs of hexadecimal digits, blanks skipped between them
fromhex_blanks(s) ==
    IF s = <<>> THEN OkB(<<>>)
    ELSE IF s[1] = 32 THEN fromhex_blanks(Tail(s))
    ELSE IF Len(s) < 2 \/ hexval(s[1]) < 0 \/ hexval(s[2]) < 0 THEN ErrB("not_hex")
    ELSE LET rest(r) ==
                 IF r.ok THEN OkB(<<16 * hexval(s[1]) + hexval(s[2])>> \o r.b) ELSE r
         IN  rest(fromhex_blanks(SubSeq(s, 3, Len(s))))

\* a hexadecimal digit character of bytes.hex
hexdigit(n) == IF n < 10 THEN 48 + n ELSE 87 + n

RECURSIVE OctetString_str(_)
\* OctetString.__str__: contents.hex(' ') of the contents
OctetString_str(contents) ==
    IF contents = <<>> THEN <<>>
    ELSE <<hexdigit(contents[1] \div 16), hexdigit(contents[1] % 16)>>
         \o (IF Len(contents) = 1 THEN <<>> ELSE <<32>> \o OctetString_str(Tail(contents)))

\* VisibleString.__str__ for contents of bytes below 128, where cp1251 is
\* ASCII: a byte below 0x20 reads as "?"
VisibleString_str(contents) ==
    [k \in 1..Len(contents) |-> IF contents[k] >= 32 THEN contents[k] ELSE 63]

RECURSIVE to_transcript(_)
\* to_transcript of each class: str(self), and for the containers the list
\* of the children's transcripts
to_transcript(v) ==
    LET kind == classes[v.T].kind
    IN  CASE kind \in {"Array", "Structure"} ->
                PyList([k \in 1..Len(v.values) |-> to_transcript(v.values[k])])
          [] kind = "Digital" -> PyStr(Digital_str(v))
          [] kind = "Boolean" ->
                PyStr(IF v.contents = <<0>> THEN <<102, 97, 108, 115, 101>>
                      ELSE <<116, 114, 117, 101>>)
          [] kind = "BitString" -> PyStr(BitString_str(v))
          [] v.T = "OctetString" -> PyStr(OctetString_str(v.contents))
          [] v.T = "VisibleString" -> PyStr(VisibleString_str(v.contents))

RECURSIVE parse(_, _)
RECURSIVE parse_each(_, _)
\* [TYPE.parse(val) for val, TYPE in zip(value, TYPES)] as a list of values,
\* or the error of the first parse that raises
parse_each(TYPES, value) ==
    IF value = <<>> \/ TYPES = <<>> THEN [ok |-> TRUE, l |-> <<>>, err |-> ""]
    ELSE LET first(r) ==
                 LET rest(rs) ==
                         IF ~rs.ok THEN rs
                         ELSE [ok |-> TRUE, l |-> <<PyCdt(r.v)>> \o rs.l, err |-> ""]
                 IN  IF ~r.ok THEN [ok |-> FALSE, l |-> <<>>, err |-> r.err]
                     ELSE rest(parse_each(Tail(TYPES), Tail(value)))
         IN  IF Head(TYPES) = "None" THEN [ok |-> FALSE, l |-> <<>>, err |-> "no_attribute"]
             ELSE first(parse(Head(TYPES), Head(value)))

\* the classmethod parse of each class
parse(T, value) ==
    LET c == classes[T]
        built(r) == IF r.ok THEN New(T, PyList(r.l)) ELSE Err(r.err)
    IN  CASE c.kind = "Array" ->
                built(parse_each([k \in 1..Len(value.l) |-> c.TYPE], value.l))
          [] c.kind = "Structure" ->
                IF ~c.hasELEMENTS THEN Err("no_attribute")
                ELSE IF Len(value.l) # Len(c.ELEMENTS) THEN Err("length")
                ELSE built(parse_each(c.ELEMENTS, value.l))
          [] c.kind = "Digital" -> Digital_parse(T, value.b)
          [] c.kind = "Boolean" -> Boolean_parse(value.b)
          [] c.kind = "BitString" -> BitString_parse(value.b)
          [] T = "OctetString" ->
                LET new(r) == IF r.ok THEN New(T, PyByteArray(r.b)) ELSE Err(r.err)
                IN  new(fromhex_blanks(value.b))
          [] T = "VisibleString" -> New(T, PyByteArray(value.b))

\* BitString.__setitem__: tmp = list(self); tmp[key] = int(value);
\* self.set(''.join(map(str, tmp)))
BitString_setitem(self, key, value) ==
    LET assign(tmp) ==
            LET i == IF key < 0 THEN key + Len(tmp) ELSE key
            IN  IF i \notin 0..(Len(tmp) - 1)
                THEN Res(self, FALSE, "index_error", <<>>, NoValue)
                ELSE BitString_set(self, PyStr(join_str([tmp EXCEPT ![i + 1] = PyInt(value)])))
    IN  IF self.length = NoLength THEN Res(self, FALSE, "no_attribute", <<>>, NoValue)
        ELSE assign([k \in 1..Len(BitString_iter(self)) |-> PyInt(BitString_iter(self)[k])])

\* BitString.inverse: self[index] = not list(self)[index]
BitString_inverse(self, index) ==
    LET invert(tmp) ==
            LET i == IF index < 0 THEN index + Len(tmp) ELSE index
            IN  IF i \notin 0..(Len(tmp) - 1)
                THEN Res(self, FALSE, "index_error", <<>>, NoValue)
                ELSE BitString_setitem(self, index, IF tmp[i + 1] = 0 THEN 1 ELSE 0)
    IN  IF self.length = NoLength THEN Res(self, FALSE, "no_attribute", <<>>, NoValue)
        ELSE invert(BitString_iter(self))

RECURSIVE BitString_lshift(_, _)
\* BitString.__lshift__: other times tmp.append(tmp.pop(0)) and set
BitString_lshift(self, other) ==
    LET rotate(tmp) ==
            LET then(r) ==
                    LET rest(n) == Res(n.obj, n.ok, n.err, r.events \o n.events, NoValue)
                    IN  IF ~r.ok THEN r ELSE rest(BitString_lshift(r.obj, other - 1))
            IN  IF tmp = <<>> THEN Res(self, FALSE, "index_error", <<>>, NoValue)
                ELSE then(BitString_set(self, PyStr(join_str(Tail(tmp) \o <<Head(tmp)>>))))
    IN  IF other <= 0 THEN Res(self, TRUE, "", <<>>, NoValue)
        ELSE IF self.length = NoLength THEN Res(self, FALSE, "no_attribute", <<>>, NoValue)
        ELSE rotate([k \in 1..Len(BitString_iter(self)) |-> PyInt(BitString_iter(self)[k])])

RECURSIVE BitString_rshift_M(_, _)
\* BitString.__rshift__ rotating to the left
BitString_rshift_M(self, other) == BitString_lshift(self, other)

RECURSIVE BitString_rshift(_, _)
\* BitString.__rshift__: other times tmp.insert(0, tmp.pop()) and set
BitString_rshift(self, other) ==
    LET rotate(tmp) ==
            LET then(r) ==
                    LET rest(n) == Res(n.obj, n.ok, n.err, r.events \o n.events, NoValue)
                    IN  IF ~r.ok THEN r ELSE rest(BitString_rshift(r.obj, other - 1))
            IN  IF tmp = <<>> THEN Res(self, FALSE, "index_error", <<>>, NoValue)
                ELSE then(BitString_set(
                              self,
                              PyStr(join_str(<<tmp[Len(tmp)]>> \o SubSeq(tmp, 1, Len(tmp) - 1)))))
    IN  IF other <= 0 THEN Res(self, TRUE, "", <<>>, NoValue)
        ELSE IF self.length = NoLength THEN Res(self, FALSE, "no_attribute", <<>>, NoValue)
        ELSE rotate([k \in 1..Len(BitString_iter(self)) |-> PyInt(BitString_iter(self)[k])])

\* DateTime.set_clock_status: the first twelve bytes and the byte of
\* int(value); "overflow" is the OverflowError of to_bytes
DateTime_set_clock_status(self, value) ==
    IF value \notin 0..255 THEN Res(self, FALSE, "overflow", <<>>, NoValue)
    ELSE Res([self EXCEPT !.contents = SliceTo(@, 12) \o <<value>>], TRUE, "", <<>>, NoValue)

\* DateTime.set_deviation: the two bytes written into __dict__["contents"]
DateTime_set_deviation(self, value) ==
    IF (-720 <= value /\ value <= 720) \/ value = -32768
    THEN Res([self EXCEPT !.contents = SliceTo(self.contents, 9) \o pack_h(value)
                                        \o SliceFrom(self.contents, 11)],
             TRUE, "", <<>>, NoValue)
    ELSE Res(self, FALSE, "out_of_range", <<>>, NoValue)

\* the write of the date setters: the bytes from the index at on replaced
\* in __dict__["contents"], or OutOfRange
Date_put(self, accepted, at, bytes) ==
    IF accepted
    THEN Res([self EXCEPT !.contents = SliceTo(self.contents, at) \o bytes
                                        \o SliceFrom(self.contents, at + Len(bytes))],
             TRUE, "", <<>>, NoValue)
    ELSE Res(self, FALSE, "out_of_range", <<>>, NoValue)

\* __Date.set_year
set_year(self, value) ==
    Date_put(self, (9999 >= value /\ value > 1) \/ value = 65535, 0,
             <<value \div 256, value % 256>>)

\* __Date.set_month
set_month(self, value) ==
    Date_put(self, (12 >= value /\ value >= 1) \/ value \in {253, 254, 255}, 2, <<value>>)

\* __Date.set_day
set_day(self, value) ==
    Date_put(self, (31 >= value /\ value >= 1) \/ value \in {253, 254, 255}, 3, <<value>>)

\* __Date.set_weekday
set_weekday(self, value) ==
    Date_put(self, (7 >= value /\ value >= 1) \/ value = 255, 4, <<value>>)

\* the write of the time setters: self.set(contents) with the byte at the
\* index at of the time replaced, or OutOfRange
Time_put(self, accepted, at, value) ==
    LET put(offset) ==
            SimpleDataType_set(self, PyByteArray([self.contents EXCEPT ![offset + at + 1] = value]))
    IN  IF accepted THEN put(IF Len(self.contents) = 4 THEN 0 ELSE 5)
        ELSE Res(self, FALSE, "out_of_range", <<>>, NoValue)

\* __Time.set_hour
set_hour(self, value) == Time_put(self, (0 <= value /\ value <= 23) \/ value = 255, 0, value)

\* __Time.set_minute
set_minute(self, value) == Time_put(self, (0 <= value /\ value <= 59) \/ value = 255, 1, value)

\* __Time.set_second
set_second(self, value) == Time_put(self, (0 <= value /\ value <= 59) \/ value = 255, 2, value)

\* __Time.set_hundredths
set_hundredths(self, value) ==
    Time_put(self, (0 <= value /\ value <= 99) \/ value = 255, 3, value)

\* datetime.time(hour, minute, second, microsecond), in hundredths
PyTime(hour, minute, second, hs) ==
    [hour |-> hour, minute |-> minute, second |-> second, hs |-> hs]

RECURSIVE nearest_time(_, _, _, _, _, _)
\* the loops of Time.get_left_nearest_time from the k-th field on, the
\* fields before it chosen: the values hi down to lo of the field are tried
\* in that order (the upper half of them first) until one returns.  A
\* specified field has its one value, another runs down to 0 from the field
\* of the point when the fields before are those of the point, else from
\* its greatest
nearest_time(c, point, k, lo, hi, chosen) ==
    LET l_point == chosen \o <<hi>>
        mid == (lo + hi) \div 2
        first(j) == IF c[j] # 255 THEN c[j]
                    ELSE IF l_point = SubSeq(point, 1, j - 1) THEN point[j]
                    ELSE IF j = 4 THEN 99 ELSE 59
        ticks(t) == ((t[1] * 60 + t[2]) * 60 + t[3]) * 100 + t[4]
        next(upper) ==
            IF upper.st = "ret" THEN upper ELSE nearest_time(c, point, k, lo, mid, chosen)
    IN  IF hi < lo THEN NotFound("none")
        ELSE IF lo < hi THEN next(nearest_time(c, point, k, mid + 1, hi, chosen))
        ELSE IF k < 4
        THEN nearest_time(c, point, k + 1, IF c[k + 1] # 255 THEN c[k + 1] ELSE 0,
                          first(k + 1), l_point)
        ELSE IF ticks(l_point) > ticks(point) THEN NotFound("none")
        ELSE [st |-> "ret", dt |-> PyTime(l_point[1], l_point[2], l_point[3], l_point[4])]

\* Time.get_left_nearest_time for a point of whole hundredths
get_left_nearest_time(self, point) ==
    LET p == <<point.hour, point.minute, point.second, point.hs>>
        c == self.contents
    IN  nearest_time(c, p, 1, IF c[1] # 255 THEN c[1] ELSE 0,
                     IF c[1] # 255 THEN c[1] ELSE p[1], <<>>)

\* tmp <<= 1 and tmp >>= 1 on the bytes of tmp, the width kept
shl1(c) ==
    [k \in 1..Len(c) |-> ((2 * c[k]) % 256) + (IF k < Len(c) THEN c[k + 1] \div 128 ELSE 0)]

shr1(c) ==
    [k \in 1..Len(c) |-> (c[k] \div 2) + (IF k > 1 THEN 128 * (c[k - 1] % 2) ELSE 0)]

RECURSIVE Digital_lshift(_, _)
\* Digital.__lshift__: other times, the contents as an unsigned integer are
\* doubled, masked to LENGTH bytes and written back as LENGTH bytes
Digital_lshift(self, other) ==
    LET LENGTH == classes[self.T].LENGTH
        tmp == shl1(Zeros(Max(0, LENGTH - Len(self.contents))) \o self.contents)
    IN  IF other <= 0 THEN Res(self, TRUE, "", <<>>, NoValue)
        ELSE Digital_lshift([self EXCEPT !.contents =
                                 SliceFrom(tmp, Len(tmp) - LENGTH)],
                            other - 1)

RECURSIVE Digital_rshift(_, _)
\* Digital.__rshift__: other times, the contents as an unsigned integer are
\* halved and written back as LENGTH bytes; "overflow" is the OverflowError
\* of to_bytes, which leaves the contents of the step before
Digital_rshift(self, other) ==
    LET LENGTH == classes[self.T].LENGTH
        tmp == StripZeros(shr1(self.contents))
    IN  IF other <= 0 THEN Res(self, TRUE, "", <<>>, NoValue)
        ELSE IF Len(tmp) > LENGTH THEN Res(self, FALSE, "overflow", <<>>, NoValue)
        ELSE Digital_rshift([self EXCEPT !.contents = to_bytes(tmp, LENGTH)], other - 1)

\* Array.append
Array_append(self, element) ==
    LET append(e) ==
            IF ~e.ok THEN Res(self, FALSE, e.err, <<>>, NoValue)
            ELSE IF classes[self.T].unique
                    /\ \E k \in 1..Len(self.values) : cdt_eq(e.v, self.values[k])
                 THEN Res(self, FALSE, "exists", <<>>, NoValue)
            ELSE Res([self EXCEPT !.values = Append(@, e.v)], TRUE, "", <<>>, NoValue)
    IN  append(IF self.TYPE = "None" THEN Err("type_error")
               ELSE IF isinstance(element, self.TYPE) THEN Ok(element.v)
               ELSE New(self.TYPE, element))

\* list.insert(index, x)
list_insert(l, index, x) ==
    LET n == Len(l)
        i == IF index < 0 THEN Max(index + n, 0) ELSE IF index > n THEN n ELSE index
    IN  SubSeq(l, 1, i) \o <<x>> \o SubSeq(l, i + 1, n)

\* l without its k-th element, k counted from 1
list_del(l, k) == SubSeq(l, 1, k - 1) \o SubSeq(l, k + 1, Len(l))

\* __Array.insert; isinstance(element, None) raises TypeError
Array_insert(self, index, element) ==
    IF self.TYPE = "None" THEN Res(self, FALSE, "type_error", <<>>, NoValue)
    ELSE IF isinstance(element, self.TYPE)
         THEN Res([self EXCEPT !.values = list_insert(@, index, element.v)], TRUE, "", <<>>,
                  NoValue)
    ELSE Res(self, TRUE, "", <<>>, NoValue)

\* __Array.remove: list.remove deletes the first child equal to element
Array_remove(self, element) ==
    LET remove(found) ==
            IF found = {} THEN Res(self, FALSE, "value_error", <<>>, NoValue)
            ELSE Res([self EXCEPT !.values =
                          list_del(@, CHOOSE k \in found : \A j \in found : k <= j)],
                     TRUE, "", <<>>, NoValue)
    IN  IF self.TYPE = "None" THEN Res(self, FALSE, "type_error", <<>>, NoValue)
        ELSE IF isinstance(element, self.TYPE)
             THEN remove({k \in 1..Len(self.values) : cdt_eq(self.values[k], element.v)})
        ELSE Res(self, TRUE, "", <<>>, NoValue)

\* __Array.pop removing the last child whatever the index
Array_pop_M(self, index) ==
    LET n == Len(self.values)
        i == IF index.i < 0 THEN index.i + n ELSE index.i
    IN  IF index.form # "int" THEN Res(self, FALSE, "type_error", <<>>, NoValue)
        ELSE IF i \notin 0..(n - 1) THEN Res(self, FALSE, "index_error", <<>>, NoValue)
        ELSE Res([self EXCEPT !.values = list_del(@, n)], TRUE, "", <<>>, self.values[n])

\* __Array.pop: list.pop(index); the default index None is handed to list.pop
Array_pop(self, index) ==
    LET n == Len(self.values)
        i == IF index.i < 0 THEN index.i + n ELSE index.i
    IN  IF index.form # "int" THEN Res(self, FALSE, "type_error", <<>>, NoValue)
        ELSE IF i \notin 0..(n - 1) THEN Res(self, FALSE, "index_error", <<>>, NoValue)
        ELSE Res([self EXCEPT !.values = list_del(@, i + 1)], TRUE, "", <<>>,
                 self.values[i + 1])

\* __Array.clear
Array_clear(self) == Res([self EXCEPT !.values = <<>>], TRUE, "", <<>>, NoValue)

RECURSIVE Array_set_elements(_, _)
\* the loop of Array.set: self.append(self.TYPE(el)) for el in new_array
Array_set_elements(self, elements) ==
    LET append(e) ==
            LET next(r) == IF ~r.ok THEN r ELSE Array_set_elements(r.obj, Tail(elements))
            IN  IF ~e.ok THEN Res(self, FALSE, e.err, <<>>, NoValue)
                ELSE next(Array_append(self, PyCdt(e.v)))
    IN  IF elements = <<>> THEN Res(self, TRUE, "", <<>>, NoValue)
        ELSE append(New(self.TYPE, Head(elements)))

\* Array.set; a list holds constructor arguments, and values when the array
\* has no TYPE yet
Array_set(self, value) ==
    LET cleared == [self EXCEPT !.values = <<>>]
        fill(new_array) ==
            LET invoke(r) ==
                    IF ~r.ok THEN Res(r.obj, FALSE, r.err, PreEvents(cleared), NoValue)
                    ELSE Res(r.obj, TRUE, "", PreEvents(cleared) \o PostEvents(r.obj), NoValue)
                append(elements) ==
                    invoke(Array_set_elements(
                               IF cleared.TYPE = "None" /\ elements # <<>>
                               THEN [cleared EXCEPT !.TYPE = elements[1].v.T]
                               ELSE cleared,
                               elements))
            IN  IF ~new_array.ok
                THEN Res(cleared, FALSE, new_array.err, PreEvents(cleared), NoValue)
                ELSE append(IF value.form = "list" THEN value.l
                            ELSE [k \in 1..Len(new_array.v.values) |->
                                      PyCdt(new_array.v.values[k])])
    IN  fill(IF value.form = "list" THEN Ok(NoValue)
             ELSE Array_init("Array", value, cleared.TYPE))

RECURSIVE cdt_set(_, _)
RECURSIVE Structure_set_elements(_, _, _, _)
RECURSIVE Structure_set(_, _)
\* the loop of Structure.set from index k: self[index].set(el_value)
Structure_set_elements(self, new, k, events) ==
    LET next(r) ==
            IF ~r.ok
            THEN Res([self EXCEPT !.values[k] = r.obj], FALSE, r.err, events \o r.events,
                     NoValue)
            ELSE Structure_set_elements([self EXCEPT !.values[k] = r.obj], new, k + 1,
                                        events \o r.events)
    IN  IF k > Len(new.values) THEN Res(self, TRUE, "", events, NoValue)
        ELSE IF k > Len(self.values) THEN Res(self, FALSE, "index", events, NoValue)
        ELSE next(cdt_set(self.values[k], PyCdt(new.values[k])))

\* Structure.set
Structure_set(self, value) ==
    LET update(new) ==
            IF ~new.ok THEN Res(self, FALSE, new.err, <<>>, NoValue)
            ELSE Structure_set_elements(self, new.v, 1, <<>>)
    IN  update(New(self.T, value))

\* Structure.__setitem__, key counted from 0
Structure_setitem(self, key, value) ==
    IF ~self.hasELEMENTS THEN Res(self, FALSE, "no_attribute", <<>>, NoValue)
    ELSE IF key \notin 0..(Len(self.ELEMENTS) - 1)
         THEN Res(self, FALSE, "index_error", <<>>, NoValue)
    ELSE IF ~isinstance(value, self.ELEMENTS[key + 1])
         THEN Res(self, FALSE, "value_error", <<>>, NoValue)
    ELSE IF key \notin 0..(Len(self.values) - 1)
         THEN Res(self, FALSE, "index_error", <<>>, NoValue)
    ELSE Res([self EXCEPT !.values[key + 1] = value.v], TRUE, "", <<>>, NoValue)

\* self.set(value) of any class
cdt_set(self, value) ==
    LET kind == classes[self.T].kind
    IN  CASE kind = "Array" -> Array_set(self, value)
          [] kind = "Structure" -> Structure_set(self, value)
          [] kind = "BitString" -> BitString_set(self, value)
          [] OTHER -> SimpleDataType_set(self, value)

\* CommonDataType.copy
copy(self) ==
    IF has_encoding(self) THEN New(self.T, PyBytes(encoding(self))) ELSE Err("no_attribute")

\* CommonDataType.get_copy: new = self.copy(); new.set(value); return new.
\* The events are those of the callbacks that ran, ret is new
get_copy(self, value) ==
    LET set_new(new) ==
            LET returned(r) ==
                    Res(self, r.ok, r.err, r.events, IF r.ok THEN r.obj ELSE NoValue)
            IN  IF ~new.ok THEN Res(self, FALSE, new.err, <<>>, NoValue)
                ELSE returned(IF classes[self.T].kind = "BitString"
                              THEN BitString_set(new.v, value)
                              ELSE SimpleDataType_set(new.v, value))
    IN  set_new(copy(self))

\* CommonDataType.register_cb_preset
register_cb_preset(self) == [self EXCEPT !.cb_preset = TRUE]

\* CommonDataType.register_cb_post_set
register_cb_post_set(self) == [self EXCEPT !.cb_post_set = TRUE]

\* again: the operation invoked a callback straight after a set that had
\* invoked one
NoOp == [op |-> "", arg |-> NoArg, index |-> 0, ok |-> TRUE, err |-> "",
         before |-> NoValue, ret |-> NoValue, events |-> <<>>, again |-> FALSE]

\* no objects: vals[i] is the contents of the i-th Unsigned object, lists[j]
\* the objects the j-th list holds in order, holders the names through
\* which the program reaches them; op, by and seen are the last operation,
\* the holder it went through and what every holder showed before it
NoHeap == [vals |-> <<>>, lists |-> <<>>, holders |-> <<>>, op |-> "", by |-> 0,
           seen |-> <<>>, steps |-> 0]

NoLen == [ok |-> FALSE, length |-> <<>>, pdu |-> <<>>]
LcIdle == [pc |-> "off", n |-> <<>>, payload |-> <<>>, enc |-> <<>>, dec |-> NoLen]

NoLookup == [ok |-> FALSE, T |-> "", err |-> ""]
RgIdle == [pc |-> "off", tag |-> <<>>, res |-> NoLookup]

\* the byte strings looked up: empty, every single byte, every byte with a tail
RgTags == {<<>>} \cup {<<t>> : t \in 0..255} \cup {<<t, 0>> : t \in 0..255}

RgInit ==
    /\ classes = Class
    /\ heap = NoHeap
    /\ rg \in [pc : {"start"}, tag : RgTags, res : {NoLookup}]
    /\ lc = LcIdle
    /\ obj = NoValue
    /\ last = NoOp

RgLookup ==
    /\ rg.pc = "start"
    /\ rg' = [rg EXCEPT !.pc = "done", !.res = get_common_data_type_from(rg.tag)]
    /\ UNCHANGED <<classes, heap, lc, obj, last>>

RgNext == RgLookup

SpecRegistry == RgInit /\ [][RgNext]_vars

(***************************************************************************)
(* Scalar values as a state machine: a value of a scalar class is          *)
(* constructed, then set, copied and given callbacks in any order.         *)
(***************************************************************************)
ScalarTypes ==
    {"NullData", "Boolean", "BitString", "OctetString", "VisibleString", "Bcd",
     "Integer", "Long", "Unsigned", "Long64", "Enum", "Float32", "Float64",
     "DateTime", "Date", "Time", "ShiftTime", "Only0"}

\* the integers handed to T(value) and set(value): around the bounds of a
\* bounded class and beyond its width, else around zero and beyond a byte
IntArgs(T) ==
    IF classes[T].hasMIN THEN {-901, -900, 900, 901, 40000} ELSE {-1, 0, 1, 300}

\* the str arguments: "900", "901", "-900", "-901", "z" for a bounded class,
\* else "", "-", "0", "1", "101", "z"
StrArgs(T) ==
    IF classes[T].hasMIN
    THEN {<<57, 48, 48>>, <<57, 48, 49>>, <<45, 57, 48, 48>>, <<45, 57, 48, 49>>, <<122>>}
    ELSE {<<>>, <<45>>, <<48>>, <<49>>, <<49, 48, 49>>, <<122>>}

\* the contents handed over as bytearray, and following the tag in bytes
RawArgs(T) ==
    LET c == classes[T]
    IN  CASE c.kind = "Digital" /\ c.LENGTH = 2 ->
                {<<>>, <<3, 132>>, <<3, 133>>, <<252, 124>>, <<252, 123>>, <<0, 3, 132>>}
          [] c.kind = "Digital" /\ c.LENGTH = 8 -> {<<>>, <<1>>, <<0, 0, 0, 0, 0, 0, 0, 1>>}
          [] c.kind \in {"BitString", "String"} -> {<<>>, <<0>>, <<1, 160>>, <<9, 160>>}
          [] c.kind \in {"Float", "Time"} -> {<<>>, <<0, 0, 0, 0>>, <<24, 0, 0, 0>>}
          [] c.kind = "Date" ->
                {<<>>, <<7, 228, 1, 1, 3>>, <<7, 228, 1, 1, 4>>, <<7, 228, 2, 30, 255>>}
          [] c.kind = "DateTime" ->
                {<<>>, <<7, 228, 1, 1, 3>>,
                 <<7, 228, 1, 1, 255, 0, 0, 0, 0, 0, 180, 255>>,
                 <<7, 228, 1, 1, 255, 24, 0, 0, 0, 0, 180, 255>>}
          [] OTHER -> {<<>>, <<0>>, <<1>>, <<255>>, <<0, 1>>}

\* the values handed over as CommonDataType arguments: of the class itself
\* and of another class
CdtArgs(T) ==
    {MkVal("Unsigned", <<1>>)}
        \cup (IF classes[T].kind \in {"Date", "DateTime", "NullData"} THEN {}
              ELSE {MkVal(T, <<0, 0, 0, 0>>)}
                       \cup (IF classes[T].hasVALUE THEN {} ELSE {MkVal(T, <<1>>)}))

\* the arguments of T(value) and of set(value); the str forms of the date
\* and time classes are left out
ScalarArgs(T) ==
    {NoArg, PyBool(1)}
        \cup {PyInt(i) : i \in IntArgs(T)}
        \cup (IF classes[T].kind \in {"DateTime", "Date", "Time"} THEN {}
              ELSE {PyStr(x) : x \in StrArgs(T)})
        \cup {PyByteArray(b) : b \in RawArgs(T)}
        \cup {PyBytes(<<>>), PyBytes(<<9, 1, 1>>)}
        \cup {PyBytes(<<classes[T].TAG>> \o b) : b \in RawArgs(T)}
        \cup {PyCdt(v) : v \in CdtArgs(T)}

\* the record of an operation on self that returned r
Done(op, arg, index, self, r) ==
    [op |-> op, arg |-> arg, index |-> index, ok |-> r.ok, err |-> r.err,
     before |-> self, ret |-> r.ret, events |-> r.events,
     again |-> last.op = "set" /\ last.events # <<>> /\ r.events # <<>>]

ObjInit ==
    /\ classes = Class
    /\ heap = NoHeap
    /\ obj = NoValue
    /\ last = NoOp
    /\ lc = LcIdle
    /\ rg = RgIdle

\* obj = T(value), once; a constructor that raises leaves no object
ScNew ==
    /\ obj = NoValue /\ last = NoOp
    /\ \E T \in ScalarTypes : \E value \in ScalarArgs(T) :
          LET built(r) ==
                  /\ obj' = r.v
                  /\ last' = [NoOp EXCEPT !.op = "new", !.arg = value, !.ok = r.ok,
                                          !.err = r.err, !.before = MkVal(T, NoAttr)]
          IN  built(New(T, value))
    /\ UNCHANGED <<classes, heap, lc, rg>>

\* obj.set(value)
ScSet ==
    /\ obj # NoValue
    /\ \E value \in ScalarArgs(obj.T) :
          LET returned(r) ==
                  /\ obj' = r.obj
                  /\ last' = Done("set", value, 0, obj, r)
          IN  returned(IF classes[obj.T].kind = "BitString" THEN BitString_set(obj, value)
                       ELSE SimpleDataType_set(obj, value))
    /\ UNCHANGED <<classes, heap, lc, rg>>

\* obj.copy()
ScCopy ==
    /\ obj # NoValue
    /\ LET returned(r) ==
               last' = Done("copy", NoArg, 0, obj, Res(obj, r.ok, r.err, <<>>, r.v))
       IN  returned(copy(obj))
    /\ UNCHANGED <<classes, heap, lc, rg, obj>>

\* obj.get_copy(value), the copy kept in last.ret
ScGetCopy ==
    /\ obj # NoValue
    /\ \E value \in ScalarArgs(obj.T) :
          LET returned(r) == last' = Done("get_copy", value, 0, obj, r)
          IN  returned(get_copy(obj, value))
    /\ UNCHANGED <<classes, heap, lc, rg, obj>>

\* obj.register_cb_preset(f)
RegisterPre ==
    /\ obj # NoValue
    /\ obj' = register_cb_preset(obj)
    /\ last' = [NoOp EXCEPT !.op = "register", !.before = obj]
    /\ UNCHANGED <<classes, heap, lc, rg>>

\* obj.register_cb_post_set(f)
RegisterPost ==
    /\ obj # NoValue
    /\ obj' = register_cb_post_set(obj)
    /\ last' = [NoOp EXCEPT !.op = "register", !.before = obj]
    /\ UNCHANGED <<classes, heap, lc, rg>>

ScNext ==
    \/ ScNew
    \/ ScSet
    \/ ScCopy
    \/ ScGetCopy
    \/ RegisterPre
    \/ RegisterPost

SpecScalar == ObjInit /\ [][ScNext]_vars

(***************************************************************************)
(* An Array as a state machine: it is constructed, then grown, shrunk and  *)
(* set, with callbacks registered in between.                              *)
(***************************************************************************)
ArrayTypes == {"Array", "TestArray", "UniqueArray"}

\* Unsigned(i)
U8(i) == MkVal("Unsigned", <<i>>)

\* the arguments of T(value): nothing, encodings (empty, of another tag, of
\* no, two distinct, two equal and one NullData child, cut short) and a
\* list of values
ArrayInits ==
    {NoArg, PyBytes(<<>>), PyBytes(<<2, 0>>), PyBytes(<<1, 0>>),
     PyBytes(<<1, 2, 17, 1, 17, 2>>), PyBytes(<<1, 2, 17, 1, 17, 1>>),
     PyBytes(<<1, 1, 0>>), PyBytes(<<1, 2, 17, 1>>),
     PyList(<<PyCdt(U8(1)), PyCdt(U8(2)), PyCdt(U8(4))>>)}

\* the arguments of append
AppendArgs ==
    {NoArg, PyInt(1), PyInt(4), PyInt(300), PyCdt(U8(2)), PyCdt(MkVal("Long", <<0, 1>>))}

\* the arguments of insert
InsertIndexes == {-1, 0, 1, 5}
InsertArgs == {PyCdt(U8(2)), PyInt(1), PyCdt(MkVal("Long", <<0, 1>>))}

\* the arguments of pop: no index, and indexes inside and outside the list
PopArgs == {NoArg, PyInt(-1), PyInt(0), PyInt(1), PyInt(3)}

\* the arguments of remove
RemoveArgs == {PyCdt(U8(2)), PyCdt(U8(9)), PyInt(1)}

\* the arguments of set: encodings, an unsupported form, and lists of
\* constructor arguments of the element type (of values while the array
\* has no TYPE)
SetArgs(self) ==
    {NoArg, PyBytes(<<1, 0>>), PyBytes(<<1, 2, 17, 1, 17, 2>>), PyBytes(<<1, 1, 0>>),
     PyBytes(<<1, 2, 17, 1>>), PyByteArray(<<>>)}
        \cup (IF self.TYPE = "None" THEN {PyList(<<PyCdt(U8(2))>>)}
              ELSE {PyList(<<PyInt(2), PyInt(4)>>), PyList(<<PyInt(4), PyInt(300)>>),
                    PyList(<<PyInt(1), PyInt(1)>>)})

\* obj = T(value), once
ArNew ==
    /\ obj = NoValue /\ last = NoOp
    /\ \E T \in ArrayTypes : \E value \in ArrayInits :
          LET built(r) ==
                  /\ obj' = r.v
                  /\ last' = [NoOp EXCEPT !.op = "new", !.arg = value, !.ok = r.ok,
                                          !.err = r.err, !.before = MkVal(T, NoAttr)]
          IN  built(New(T, value))
    /\ UNCHANGED <<classes, heap, lc, rg>>

\* obj.append(element)
ArAppend ==
    /\ obj # NoValue /\ Len(obj.values) < MaxArrayLen
    /\ \E element \in AppendArgs :
          LET returned(r) ==
                  /\ obj' = r.obj
                  /\ last' = Done("append", element, 0, obj, r)
          IN  returned(Array_append(obj, element))
    /\ UNCHANGED <<classes, heap, lc, rg>>

\* obj.insert(index, element)
ArInsert ==
    /\ obj # NoValue /\ Len(obj.values) < MaxArrayLen
    /\ \E index \in InsertIndexes : \E element \in InsertArgs :
          LET returned(r) ==
                  /\ obj' = r.obj
                  /\ last' = Done("insert", element, index, obj, r)
          IN  returned(Array_insert(obj, index, element))
    /\ UNCHANGED <<classes, heap, lc, rg>>

\* obj.pop(index), obj.pop()
ArPop ==
    /\ obj # NoValue
    /\ \E index \in PopArgs :
          LET returned(r) ==
                  /\ obj' = r.obj
                  /\ last' = Done("pop", index, 0, obj, r)
          IN  returned(Array_pop(obj, index))
    /\ UNCHANGED <<classes, heap, lc, rg>>

\* obj.remove(element)
ArRemove ==
    /\ obj # NoValue
    /\ \E element \in RemoveArgs :
          LET returned(r) ==
                  /\ obj' = r.obj
                  /\ last' = Done("remove", element, 0, obj, r)
          IN  returned(Array_remove(obj, element))
    /\ UNCHANGED <<classes, heap, lc, rg>>

\* obj.clear()
ArClear ==
    /\ obj # NoValue
    /\ obj' = Array_clear(obj).obj
    /\ last' = Done("clear", NoArg, 0, obj, Array_clear(obj))
    /\ UNCHANGED <<classes, heap, lc, rg>>

\* obj.set(value)
ArSet ==
    /\ obj # NoValue
    /\ \E value \in SetArgs(obj) :
          LET returned(r) ==
                  /\ obj' = r.obj
                  /\ last' = Done("set", value, 0, obj, r)
          IN  returned(Array_set(obj, value))
    /\ UNCHANGED <<classes, heap, lc, rg>>

ArNext ==
    \/ ArNew
    \/ ArAppend
    \/ ArInsert
    \/ ArPop
    \/ ArRemove
    \/ ArClear
    \/ ArSet
    \/ RegisterPre
    \/ RegisterPost

SpecArray == ObjInit /\ [][ArNext]_vars

(***************************************************************************)
(* A Structure as a state machine: it is constructed and set.  The fields  *)
(* of a Structure without schema are drawn from well-formed encodings of   *)
(* the types named beside them.                                            *)
(***************************************************************************)
StructureTypes == {"Structure", "TestStructure"}

\* well-formed encodings of one value, with the type of their tag
StFields ==
    {[b |-> <<17, 1>>, T |-> "Unsigned"],
     [b |-> <<9, 1, 65>>, T |-> "OctetString"],
     [b |-> <<0>>, T |-> "NullData"],
     [b |-> <<3, 1>>, T |-> "Boolean"],
     [b |-> <<1, 1, 17, 2>>, T |-> "Array"],
     [b |-> <<2, 1, 17, 5>>, T |-> "Structure"],
     [b |-> <<26, 7, 228, 1, 1, 3>>, T |-> "Date"],
     [b |-> <<20, 0, 0, 0, 0, 0, 0, 0, 1>>, T |-> "Long64"]}

\* the field lists of the encodings handed to Structure(value)
StFieldLists == {<<>>} \cup {<<f>> : f \in StFields} \cup {<<f, g>> : f, g \in StFields}

RECURSIVE StContents(_)
\* the encodings of the fields, concatenated
StContents(fields) ==
    IF fields = <<>> THEN <<>> ELSE Head(fields).b \o StContents(Tail(fields))

\* the encoding of a Structure of these fields
StEncoding(fields) == <<2, Len(fields)>> \o StContents(fields)

\* the arguments of T(value): without schema the well-formed encodings, one
\* cut short and one of another tag; with the schema of TestStructure
\* nothing, encodings, contents, tuples and lists that fit the schema and
\* that do not
StructureInits(T) ==
    IF T = "Structure"
    THEN {PyBytes(StEncoding(fields)) : fields \in StFieldLists}
             \cup {PyBytes(<<2, 2, 17, 1>>), PyBytes(<<1, 0>>), NoArg}
    ELSE {NoArg, PyBytes(<<2, 3, 17, 1, 9, 1, 65, 1, 1, 17, 2>>),
          PyBytes(<<2, 2, 17, 1, 9, 1, 65>>), PyByteArray(<<17, 1, 9, 1, 65, 1, 0>>),
          PyByteArray(<<17, 1, 9, 1, 65>>),
          PyTuple(<<PyInt(1), PyStr(<<52, 49>>), NoArg>>), PyTuple(<<PyInt(1)>>),
          PyList(<<PyCdt(U8(1)), PyCdt(MkVal("OctetString", <<65>>)),
                   PyCdt([MkVal("TestArray", <<>>) EXCEPT !.TYPE = "Unsigned"])>>),
          PyList(<<PyCdt(U8(1))>>), PyList(<<PyCdt(MkVal("OctetString", <<65>>))>>)}

\* the arguments of set: encodings of one, two and three fields
StructureSets ==
    {PyBytes(<<2, 1, 17, 7>>), PyBytes(<<2, 2, 17, 7, 16, 0, 1>>),
     PyBytes(<<2, 2, 17, 7, 9, 1, 66>>),
     PyBytes(<<2, 3, 17, 7, 9, 1, 66, 1, 1, 17, 3>>),
     PyBytes(<<2, 3, 17, 7, 9, 1, 66, 1, 1, 18, 0, 1>>), PyBytes(<<2, 1, 17>>)}

\* obj = T(value), once
StNew ==
    /\ obj = NoValue /\ last = NoOp
    /\ \E T \in StructureTypes : \E value \in StructureInits(T) :
          LET built(r) ==
                  /\ obj' = r.v
                  /\ last' = [NoOp EXCEPT !.op = "new", !.arg = value, !.ok = r.ok,
                                          !.err = r.err, !.before = MkVal(T, NoAttr)]
          IN  built(New(T, value))
    /\ UNCHANGED <<classes, heap, lc, rg>>

\* obj.set(value)
StSet ==
    /\ obj # NoValue
    /\ \E value \in StructureSets :
          LET returned(r) ==
                  /\ obj' = r.obj
                  /\ last' = Done("set", value, 0, obj, r)
          IN  returned(Structure_set(obj, value))
    /\ UNCHANGED <<classes, heap, lc, rg>>

\* the arguments of indexed assignment
SetItemKeys == {0, 1, 3}
SetItemArgs == {PyCdt(U8(7)), PyCdt(MkVal("OctetString", <<66>>)), PyInt(7)}

\* obj[key] = value
StSetItem ==
    /\ obj # NoValue
    /\ \E key \in SetItemKeys : \E value \in SetItemArgs :
          LET returned(r) ==
                  /\ obj' = r.obj
                  /\ last' = Done("setitem", value, key, obj, r)
          IN  returned(Structure_setitem(obj, key, value))
    /\ UNCHANGED <<classes, heap, lc, rg>>

StNext ==
    \/ StNew
    \/ StSet
    \/ StSetItem

SpecStructure == ObjInit /\ [][StNext]_vars

(***************************************************************************)
(* A BitString as a state machine: it is parsed from a str or decoded from *)
(* bytes, then single bits are assigned and inverted and all bits rotated. *)
(***************************************************************************)
\* the str of at most MaxBits characters 0 and 1, and two that are no bits
BitStrings == UNION {[1..n -> {48, 49}] : n \in 0..MaxBits} \cup {<<50>>, <<49, 122>>}

\* encodings: of no bits, of three bits in a byte of ones, of nine bits, of
\* three bits and a byte more, of more bits than bytes, of another tag
BitStringInits ==
    {PyBytes(<<4, 0>>), PyBytes(<<4, 3, 255>>), PyBytes(<<4, 9, 160, 128>>),
     PyBytes(<<4, 3, 160, 7>>), PyBytes(<<4, 9, 160>>), PyBytes(<<9, 0>>)}

\* the keys of indexed assignment and inverse, and the values assigned
BitKeys == {-1, 0, 9}
BitValues == {0, 1, 2}

\* the numbers of places of a rotation
Shifts == {0, 2}

\* obj = BitString.parse(value), once
BsParse ==
    /\ obj = NoValue /\ last = NoOp
    /\ \E value \in BitStrings :
          LET built(r) ==
                  /\ obj' = r.v
                  /\ last' = [NoOp EXCEPT !.op = "parse", !.arg = PyStr(value), !.ok = r.ok,
                                          !.err = r.err]
          IN  built(BitString_parse(value))
    /\ UNCHANGED <<classes, heap, lc, rg>>

\* obj = BitString(value), once
BsNew ==
    /\ obj = NoValue /\ last = NoOp
    /\ \E value \in BitStringInits :
          LET built(r) ==
                  /\ obj' = r.v
                  /\ last' = [NoOp EXCEPT !.op = "new", !.arg = value, !.ok = r.ok,
                                          !.err = r.err]
          IN  built(BitString_init("BitString", value))
    /\ UNCHANGED <<classes, heap, lc, rg>>

\* obj[key] = value
BsSetItem ==
    /\ obj # NoValue
    /\ \E key \in BitKeys : \E value \in BitValues :
          LET returned(r) ==
                  /\ obj' = r.obj
                  /\ last' = Done("setitem", PyInt(value), key, obj, r)
          IN  returned(BitString_setitem(obj, key, value))
    /\ UNCHANGED <<classes, heap, lc, rg>>

\* obj.inverse(index)
BsInverse ==
    /\ obj # NoValue
    /\ \E index \in BitKeys :
          LET returned(r) ==
                  /\ obj' = r.obj
                  /\ last' = Done("inverse", NoArg, index, obj, r)
          IN  returned(BitString_inverse(obj, index))
    /\ UNCHANGED <<classes, heap, lc, rg>>

\* obj << other
BsLshift ==
    /\ obj # NoValue
    /\ \E other \in Shifts :
          LET returned(r) ==
                  /\ obj' = r.obj
                  /\ last' = Done("lshift", PyInt(other), 0, obj, r)
          IN  returned(BitString_lshift(obj, other))
    /\ UNCHANGED <<classes, heap, lc, rg>>

\* obj >> other
BsRshift ==
    /\ obj # NoValue
    /\ \E other \in Shifts :
          LET returned(r) ==
                  /\ obj' = r.obj
                  /\ last' = Done("rshift", PyInt(other), 0, obj, r)
          IN  returned(BitString_rshift(obj, other))
    /\ UNCHANGED <<classes, heap, lc, rg>>

BsNext ==
    \/ BsParse
    \/ BsNew
    \/ BsSetItem
    \/ BsInverse
    \/ BsLshift
    \/ BsRshift

SpecBitString == ObjInit /\ [][BsNext]_vars

(***************************************************************************)
(* A value and its transcript as a state machine: a value is decoded from  *)
(* bytes, then T.parse(v.to_transcript()) takes its place.                 *)
(***************************************************************************)
DigitalTypes ==
    {"Integer", "Long", "DoubleLong", "Long64",
     "Unsigned", "LongUnsigned", "DoubleLongUnsigned", "Long64Unsigned"}

\* the contents of an integer type: a first byte, a last byte, and one byte
\* repeated between them
DigitalContents(T) ==
    {c \in [1..classes[T].LENGTH -> {0, 1, 128, 255}] :
        \A k \in 2..(classes[T].LENGTH - 1) : c[k] = c[2]}

\* the encodings of the integer types
DigitalInits ==
    UNION {{<<T, <<classes[T].TAG>> \o c>> : c \in DigitalContents(T)} : T \in DigitalTypes}

\* encodings of the other types: Boolean, BitString, OctetString,
\* VisibleString, an Array of Unsigned, a Structure of three elements, and
\* an Array and a Structure without a schema
TranscriptInits ==
    {<<"Boolean", <<3, 0>>>>, <<"Boolean", <<3, 1>>>>, <<"Boolean", <<3, 255>>>>,
     <<"BitString", <<4, 0>>>>, <<"BitString", <<4, 3, 160>>>>,
     <<"BitString", <<4, 3, 255>>>>, <<"BitString", <<4, 9, 160, 128>>>>,
     <<"OctetString", <<9, 0>>>>, <<"OctetString", <<9, 1, 65>>>>,
     <<"OctetString", <<9, 3, 0, 31, 255>>>>,
     <<"VisibleString", <<10, 0>>>>, <<"VisibleString", <<10, 2, 65, 32>>>>,
     <<"VisibleString", <<10, 2, 52, 31>>>>, <<"VisibleString", <<10, 1, 0>>>>,
     <<"TestArray", <<1, 0>>>>, <<"TestArray", <<1, 2, 17, 5, 17, 255>>>>,
     <<"TestStructure", <<2, 3, 17, 1, 9, 1, 65, 1, 1, 17, 2>>>>,
     <<"TestStructure", <<2, 3, 17, 0, 9, 0, 1, 0>>>>,
     <<"Array", <<1, 0>>>>, <<"Array", <<1, 1, 17, 5>>>>,
     <<"Structure", <<2, 0>>>>, <<"Structure", <<2, 1, 17, 1>>>>}

\* obj = T(value) of an encoding, once
TrNew ==
    /\ obj = NoValue /\ last = NoOp
    /\ \E i \in TranscriptInits \cup DigitalInits :
          LET built(r) ==
                  /\ obj' = r.v
                  /\ last' = [NoOp EXCEPT !.op = "new", !.arg = PyBytes(i[2]), !.ok = r.ok,
                                          !.err = r.err]
          IN  built(New(i[1], PyBytes(i[2])))
    /\ UNCHANGED <<classes, heap, lc, rg>>

\* obj = type(obj).parse(obj.to_transcript())
TrParse ==
    /\ obj # NoValue
    /\ LET parsed(t) ==
               LET built(r) ==
                       /\ obj' = r.v
                       /\ last' = [NoOp EXCEPT !.op = "parse", !.arg = t, !.ok = r.ok,
                                               !.err = r.err, !.before = obj]
               IN  built(parse(obj.T, t))
       IN  parsed(to_transcript(obj))
    /\ UNCHANGED <<classes, heap, lc, rg>>

TrNext ==
    \/ TrNew
    \/ TrParse

SpecTranscript == ObjInit /\ [][TrNext]_vars

(***************************************************************************)
(* The nearest instants of a partial DateTime as a state machine: a        *)
(* DateTime is decoded from bytes, then searched to the left and to the    *)
(* right of a point.                                                       *)
(***************************************************************************)
\* the date fields year, month, day, weekday as bytes: every day, Sundays,
\* the 9th, May, Sunday 9 May, the year 2021, May 2021, Sunday 9 May 2021,
\* 9 May 2021, the 9th in 2021, Monday 10 May 2021
NearestDates ==
    {<<255, 255, 255, 255, 255>>, <<255, 255, 255, 255, 7>>, <<255, 255, 255, 9, 255>>,
     <<255, 255, 5, 255, 255>>, <<255, 255, 5, 9, 7>>,
     <<7, 229, 255, 255, 255>>, <<7, 229, 5, 255, 255>>, <<7, 229, 5, 9, 7>>,
     <<7, 229, 5, 9, 255>>, <<7, 229, 255, 9, 255>>, <<7, 229, 5, 10, 1>>}

\* the time fields hour, minute, second, hundredths: any time, 10:00,
\* 10:00:00.00, half past every hour
NearestTimes ==
    {<<255, 255, 255, 255>>, <<10, 0, 255, 255>>, <<10, 0, 0, 0>>, <<255, 30, 255, 255>>}

\* the deviation not specified and three hours east, with the clock status
NearestDeviations == {<<128, 0, 255>>, <<0, 180, 0>>}

\* the points: midnight of Monday 10 May 2021 UTC, that day at 12:30:30.50,
\* and the last hundredth of May
Points ==
    {datetime(2021, 5, 10, 0, 0, 0, 0, 0), datetime(2021, 5, 10, 12, 30, 30, 50, 0),
     datetime(2021, 5, 31, 23, 59, 59, 99, 0)}

\* the points of a day: its first and last hundredth, 12:30:30.50, and the
\* last hundredth before ten
TimePoints ==
    {PyTime(0, 0, 0, 0), PyTime(12, 30, 30, 50), PyTime(9, 59, 59, 99),
     PyTime(23, 59, 59, 99)}

\* obj = DateTime(value) of an encoding, once
NdNew ==
    /\ obj = NoValue /\ last = NoOp
    /\ \E d \in NearestDates, t \in NearestTimes, z \in NearestDeviations :
          LET built(r) ==
                  /\ obj' = r.v
                  /\ last' = [NoOp EXCEPT !.op = "new", !.arg = PyBytes(<<25>> \o d \o t \o z),
                                          !.ok = r.ok, !.err = r.err]
          IN  built(New("DateTime", PyBytes(<<25>> \o d \o t \o z)))
    /\ UNCHANGED <<classes, heap, lc, rg>>

\* obj = Time(value) of an encoding, once
NdNewTime ==
    /\ obj = NoValue /\ last = NoOp
    /\ \E t \in NearestTimes :
          LET built(r) ==
                  /\ obj' = r.v
                  /\ last' = [NoOp EXCEPT !.op = "new", !.arg = PyBytes(<<27>> \o t),
                                          !.ok = r.ok, !.err = r.err]
          IN  built(New("Time", PyBytes(<<27>> \o t)))
    /\ UNCHANGED <<classes, heap, lc, rg>>

\* obj.get_left_nearest_time(point), the one search of the value
NdTimeLeft ==
    /\ obj # NoValue /\ obj.T = "Time" /\ last.op = "new"
    /\ \E point \in TimePoints :
          LET returned(r) ==
                  last' = [NoOp EXCEPT !.op = "time_left", !.arg = point, !.ret = r,
                                       !.ok = r.st \in {"ret", "none"},
                                       !.err = IF r.st \in {"ret", "none"} THEN "" ELSE r.st,
                                       !.before = obj]
          IN  returned(get_left_nearest_time(obj, point))
    /\ UNCHANGED <<classes, heap, lc, rg, obj>>

\* obj.get_left_nearest_datetime(point), the one search of the value
NdLeft ==
    /\ obj # NoValue /\ obj.T = "DateTime" /\ last.op = "new"
    /\ \E point \in Points :
          LET returned(r) ==
                  last' = [NoOp EXCEPT !.op = "left", !.arg = point, !.ret = r,
                                       !.ok = r.st \in {"ret", "none"},
                                       !.err = IF r.st \in {"ret", "none"} THEN "" ELSE r.st,
                                       !.before = obj]
          IN  returned(get_left_nearest_datetime(obj, point))
    /\ UNCHANGED <<classes, heap, lc, rg, obj>>

\* obj.get_right_nearest_datetime(point), the one search of the value
NdRight ==
    /\ obj # NoValue /\ obj.T = "DateTime" /\ last.op = "new"
    /\ \E point \in Points :
          LET returned(r) ==
                  last' = [NoOp EXCEPT !.op = "right", !.arg = point, !.ret = r,
                                       !.ok = r.st \in {"ret", "none"},
                                       !.err = IF r.st \in {"ret", "none"} THEN "" ELSE r.st,
                                       !.before = obj]
          IN  returned(get_right_nearest_datetime(obj, point))
    /\ UNCHANGED <<classes, heap, lc, rg, obj>>

NdNext ==
    \/ NdNew
    \/ NdLeft
    \/ NdRight
    \/ NdNewTime
    \/ NdTimeLeft

SpecNearest == ObjInit /\ [][NdNext]_vars

(***************************************************************************)
(* SpecDateTime: a DateTime built from bytes, from text or from a host     *)
(* datetime, and then modified by its setters.                             *)
(***************************************************************************)
\* the two deviation bytes of the encodings: not specified, 0, 180, 720,
\* 721, -720, -721, 32767
DtDeviations ==
    {<<128, 0>>, <<0, 0>>, <<0, 180>>, <<2, 208>>, <<2, 209>>, <<253, 48>>, <<253, 47>>,
     <<127, 255>>}

\* the date and time bytes of the encodings: 2021-05-10 01:02:03.04, the
\* same on its Monday, nothing specified
DtFields ==
    {<<7, 229, 5, 10, 255, 1, 2, 3, 4>>, <<7, 229, 5, 10, 1, 1, 2, 3, 4>>,
     <<255, 255, 255, 255, 255, 255, 255, 255, 255>>}

\* the deviation texts: none, '-', 0, 700, -120, 720, 721, -721, x
DtDeviationTexts ==
    {<<>>, <<45>>, <<48>>, <<55, 48, 48>>, <<45, 49, 50, 48>>, <<55, 50, 48>>, <<55, 50, 49>>,
     <<45, 55, 50, 49>>, <<120>>}

\* the text 10.05.2021 01:02:03 before the deviation
DtText == <<49, 48, 46, 48, 53, 46, 50, 48, 50, 49, 32, 48, 49, 58, 48, 50, 58, 48, 51>>

\* utcoffset() of the host datetimes, in minutes
DtOffsets == {NoOffset, 0, 180, -120, 720, -720, 840}

\* the constructor arguments
DtInits ==
    {PyBytes(<<25>> \o f \o z \o <<255>>) : f \in DtFields, z \in DtDeviations}
        \cup {PyStr(DtText \o <<32>> \o t) : t \in DtDeviationTexts}
        \cup {PyStr(DtText)}
        \cup {PyDatetime(<<2021, 5, 10, 1, 2, 3, 40000>>, off) : off \in DtOffsets}

\* the constructor arguments of a Date and of a Time
DtDateInits ==
    {PyBytes(<<26>> \o d) :
        d \in {<<7, 229, 5, 10, 1>>, <<255, 255, 255, 255, 255>>, <<7, 208, 1, 1, 6>>,
               <<7, 208, 1, 1, 1>>, <<7, 208, 1, 255, 1>>, <<255, 255, 1, 1, 2>>}}
DtTimeInits == {PyBytes(<<27, 1, 2, 3, 4>>), PyBytes(<<27, 255, 255, 255, 255>>)}

\* the arguments of set_deviation
DtSetDeviations == {-32768, -721, -720, -120, 0, 700, 720, 721, 32768}

\* obj = DateTime(value), Date(value) or Time(value)
DtNew ==
    /\ obj = NoValue /\ last = NoOp
    /\ \E T \in {"DateTime", "Date", "Time"} :
          \E value \in (CASE T = "DateTime" -> DtInits [] T = "Date" -> DtDateInits
                            [] T = "Time" -> DtTimeInits) :
              LET built(r) ==
                      /\ obj' = r.v
                      /\ last' = [NoOp EXCEPT !.op = "new", !.arg = value, !.ok = r.ok,
                                              !.err = r.err]
              IN  built(DateTime_init_host(T, value))
    /\ UNCHANGED <<classes, heap, lc, rg>>

\* obj.set_deviation(value)
DtSetDeviation ==
    /\ obj # NoValue /\ obj.T = "DateTime" /\ last.op \in {"new", "set_deviation"}
    /\ \E value \in DtSetDeviations :
          LET returned(r) ==
                  /\ obj' = r.obj
                  /\ last' = Done("set_deviation", PyInt(value), 0, obj, r)
          IN  returned(DateTime_set_deviation(obj, value))
    /\ UNCHANGED <<classes, heap, lc, rg>>

\* the arguments of the field setters, around the ends of their ranges
DtYears == {0, 1, 2, 9999, 10000, 65535}
DtMonths == {0, 1, 2, 12, 13, 252, 253, 255, 256}
DtDays == {0, 1, 31, 32, 254, 255}
DtWeekdays == {0, 1, 7, 8, 254, 255}
DtHours == {-1, 0, 23, 24, 255}
DtMinutes == {0, 59, 60, 255}
DtSeconds == {0, 59, 60, 255}
DtHundredths == {0, 99, 100, 255}

\* the names of the date setters
DateSetters == {"set_year", "set_month", "set_day", "set_weekday"}

\* obj.set_year(value), the first setter call on the value
DtSetYear ==
    /\ obj # NoValue /\ obj.T # "Time" /\ last.op = "new"
    /\ \E value \in DtYears :
          LET returned(r) ==
                  /\ obj' = r.obj
                  /\ last' = Done("set_year", PyInt(value), 0, obj, r)
          IN  returned(set_year(obj, value))
    /\ UNCHANGED <<classes, heap, lc, rg>>

\* obj.set_month(value), the first setter call on the value
DtSetMonth ==
    /\ obj # NoValue /\ obj.T # "Time" /\ last.op = "new"
    /\ \E value \in DtMonths :
          LET returned(r) ==
                  /\ obj' = r.obj
                  /\ last' = Done("set_month", PyInt(value), 0, obj, r)
          IN  returned(set_month(obj, value))
    /\ UNCHANGED <<classes, heap, lc, rg>>

\* obj.set_day(value), the first setter call on the value
DtSetDay ==
    /\ obj # NoValue /\ obj.T # "Time" /\ last.op = "new"
    /\ \E value \in DtDays :
          LET returned(r) ==
                  /\ obj' = r.obj
                  /\ last' = Done("set_day", PyInt(value), 0, obj, r)
          IN  returned(set_day(obj, value))
    /\ UNCHANGED <<classes, heap, lc, rg>>

\* obj.set_weekday(value), the first setter call on the value
DtSetWeekday ==
    /\ obj # NoValue /\ obj.T # "Time" /\ last.op = "new"
    /\ \E value \in DtWeekdays :
          LET returned(r) ==
                  /\ obj' = r.obj
                  /\ last' = Done("set_weekday", PyInt(value), 0, obj, r)
          IN  returned(set_weekday(obj, value))
    /\ UNCHANGED <<classes, heap, lc, rg>>

\* obj.set_hour(value), after the constructor or one date setter
DtSetHour ==
    /\ obj # NoValue /\ obj.T # "Date" /\ last.op \in {"new"} \cup DateSetters
    /\ \E value \in DtHours :
          LET returned(r) ==
                  /\ obj' = r.obj
                  /\ last' = Done("set_hour", PyInt(value), 0, obj, r)
          IN  returned(set_hour(obj, value))
    /\ UNCHANGED <<classes, heap, lc, rg>>

\* obj.set_minute(value), after the constructor or one date setter
DtSetMinute ==
    /\ obj # NoValue /\ obj.T # "Date" /\ last.op \in {"new"} \cup DateSetters
    /\ \E value \in DtMinutes :
          LET returned(r) ==
                  /\ obj' = r.obj
                  /\ last' = Done("set_minute", PyInt(value), 0, obj, r)
          IN  returned(set_minute(obj, value))
    /\ UNCHANGED <<classes, heap, lc, rg>>

\* obj.set_second(value), after the constructor or one date setter
DtSetSecond ==
    /\ obj # NoValue /\ obj.T # "Date" /\ last.op \in {"new"} \cup DateSetters
    /\ \E value \in DtSeconds :
          LET returned(r) ==
                  /\ obj' = r.obj
                  /\ last' = Done("set_second", PyInt(value), 0, obj, r)
          IN  returned(set_second(obj, value))
    /\ UNCHANGED <<classes, heap, lc, rg>>

\* obj.set_hundredths(value), after the constructor or one date setter
DtSetHundredths ==
    /\ obj # NoValue /\ obj.T # "Date" /\ last.op \in {"new"} \cup DateSetters
    /\ \E value \in DtHundredths :
          LET returned(r) ==
                  /\ obj' = r.obj
                  /\ last' = Done("set_hundredths", PyInt(value), 0, obj, r)
          IN  returned(set_hundredths(obj, value))
    /\ UNCHANGED <<classes, heap, lc, rg>>

\* obj.set_clock_status(value)
DtSetClockStatus ==
    /\ obj # NoValue /\ obj.T = "DateTime" /\ last.op = "new"
    /\ \E value \in {0, 1, 255, 256} :
          LET returned(r) ==
                  /\ obj' = r.obj
                  /\ last' = Done("set_clock_status", PyInt(value), 0, obj, r)
          IN  returned(DateTime_set_clock_status(obj, value))
    /\ UNCHANGED <<classes, heap, lc, rg>>

DtNext ==
    \/ DtNew \/ DtSetDeviation \/ DtSetClockStatus
    \/ DtSetYear \/ DtSetMonth \/ DtSetDay \/ DtSetWeekday
    \/ DtSetHour \/ DtSetMinute \/ DtSetSecond \/ DtSetHundredths

SpecDateTime == ObjInit /\ [][DtNext]_vars

(***************************************************************************)
(* SpecDateText: a Date, Time or DateTime, built again from its own text   *)
(* and parsed from its own transcript.                                     *)
(***************************************************************************)
\* the date bytes: year 2021 or none; month 5, begin, end or none; day 10,
\* last, penult or none; no weekday, Monday or Wednesday
TxDates ==
    {y \o <<m, d, w>> : y \in {<<7, 229>>, <<255, 255>>}, m \in {5, 254, 253, 255},
                        d \in {10, 254, 253, 255}, w \in {255, 1, 3}}

\* the time bytes: each of 01:02:03.04 specified or not
TxTimes == {<<h, m, s, f>> : h \in {1, 255}, m \in {2, 255}, s \in {3, 255}, f \in {4, 255}}

\* the deviation and clock status bytes: none, 180 and -10 minutes
TxTails == {<<128, 0, 255>>, <<0, 180, 255>>, <<255, 246, 255>>, <<255, 246, 0>>}

\* the texts of partly written DateTimes
TxTexts ==
    {<<49, 48, 46, 48, 53>>,
     <<49, 48, 46, 48, 53, 46, 50, 48, 50, 49>>,
     <<49, 48, 46, 48, 53, 46, 50, 48, 50, 49, 32, 48, 49, 58, 48, 50>>,
     <<49, 48, 46, 48, 53, 46, 50, 48, 50, 49, 32, 48, 49, 58, 48, 50, 58, 48, 51, 46, 48, 52, 32, 49, 56, 48>>,
     <<>>,
     <<95, 95, 46, 95, 95, 46, 50, 48, 50, 49, 32, 95, 95, 58, 48, 50>>,
     <<49, 48, 46, 48, 53, 46, 50, 48, 50, 49, 32, 32, 53>>}

\* the class and the constructor argument
TxInits ==
    {<<"Date", PyBytes(<<26>> \o d)>> : d \in TxDates}
        \cup {<<"Time", PyBytes(<<27>> \o t)>> : t \in TxTimes}
        \cup {<<"DateTime", PyBytes(<<25>> \o d \o t \o z)>> :
                 d \in {<<7, 229, 5, 10, 255>>, <<7, 229, 5, 10, 1>>, <<255, 255, 254, 253, 255>>,
                        <<255, 255, 255, 255, 255>>},
                 t \in {<<1, 2, 3, 4>>, <<1, 2, 255, 255>>, <<255, 255, 255, 255>>},
                 z \in TxTails}
        \cup {<<"DateTime", PyStr(t)>> : t \in TxTexts}

\* obj = T(value)
TxNew ==
    /\ obj = NoValue /\ last = NoOp
    /\ \E init \in TxInits :
          LET built(r) ==
                  /\ obj' = r.v
                  /\ last' = [NoOp EXCEPT !.op = "new", !.arg = init[2], !.ok = r.ok,
                                          !.err = r.err]
          IN  built(DateTime_init_host(init[1], init[2]))
    /\ UNCHANGED <<classes, heap, lc, rg>>

\* T(str(obj)), kept in last.ret
TxFromStr ==
    /\ obj # NoValue /\ last.op = "new"
    /\ LET built(text) ==
               LET from(r) ==
                       last' = [NoOp EXCEPT !.op = "from_str", !.arg = PyStr(text.b),
                                            !.ok = r.ok, !.err = r.err, !.ret = r.v,
                                            !.before = obj]
               IN  IF text.ok THEN from(DateTime_init_host(obj.T, PyStr(text.b)))
                   ELSE from(Err(text.err))
       IN  built(DateTime_str(obj))
    /\ UNCHANGED <<classes, heap, lc, rg, obj>>

\* T.parse(obj.to_transcript()), kept in last.ret
TxParse ==
    /\ obj # NoValue /\ last.op = "new"
    /\ LET built(text) ==
               LET from(r) ==
                       last' = [NoOp EXCEPT !.op = "parse", !.arg = PyStr(text.b),
                                            !.ok = r.ok, !.err = r.err, !.ret = r.v,
                                            !.before = obj]
               IN  IF text.ok THEN from(DateTime_parse(obj.T, text.b))
                   ELSE from(Err(text.err))
       IN  built(DateTime_str(obj))
    /\ UNCHANGED <<classes, heap, lc, rg, obj>>

TxNext == TxNew \/ TxFromStr \/ TxParse

SpecDateText == ObjInit /\ [][TxNext]_vars

(***************************************************************************)
(* Decoding from a buffer that ends early: a class is built from every     *)
(* leading part of an encoding that keeps the tag.                         *)
(***************************************************************************)
\* complete encodings by class, none a leading part of another of its class;
\* the length headers are of the short form and of the long form with one
\* and two length bytes
TcEncodings(T) ==
    LET c == classes[T]
        tag == <<c.TAG>>
    IN  CASE c.kind = "String" ->
                {tag \o <<2, 65, 66>>, tag \o <<129, 2, 65, 66>>, tag \o <<130, 0, 1, 65>>}
          [] c.kind = "BitString" ->
                {tag \o <<9, 255, 128>>, tag \o <<129, 8, 255>>, tag \o <<130, 0, 8, 255>>}
          [] c.kind = "Array" ->
                {tag \o <<2, 17, 1, 17, 2>>, tag \o <<129, 1, 17, 1>>,
                 tag \o <<130, 0, 1, 17, 1>>}
          [] c.kind = "DateTime" -> {tag \o <<7, 228, 1, 1, 255, 0, 0, 0, 0, 0, 180, 255>>}
          [] c.kind = "Date" -> {tag \o <<7, 228, 1, 1, 3>>}
          [] c.kind = "Time" -> {tag \o <<0, 0, 0, 0>>}
          [] c.kind = "Boolean" -> {tag \o <<1>>}
          [] c.kind = "Bcd" -> {tag \o <<1>>}
          [] OTHER -> {tag \o [k \in 1..c.LENGTH |-> k]}

TcTypes ==
    {"OctetString", "VisibleString", "Utf8String", "BitString", "Array", "TestArray",
     "Integer", "Long", "Unsigned", "LongUnsigned", "DoubleLong", "DoubleLongUnsigned",
     "Long64", "Long64Unsigned", "Enum", "Boolean", "Bcd", "Float32", "Float64",
     "DateTime", "Date", "Time"}

\* obj = T(buffer), once, the buffer a leading part of an encoding of T
TcNew ==
    /\ obj = NoValue /\ last = NoOp
    /\ \E T \in TcTypes : \E e \in TcEncodings(T) : \E n \in 1..Len(e) :
          LET built(r) ==
                  /\ obj' = r.v
                  /\ last' = [NoOp EXCEPT !.op = "new", !.arg = PyBytes(SubSeq(e, 1, n)),
                                          !.ok = r.ok, !.err = r.err,
                                          !.before = MkVal(T, NoAttr)]
          IN  built(New(T, PyBytes(SubSeq(e, 1, n))))
    /\ UNCHANGED <<classes, heap, lc, rg>>

TcNext == TcNew

SpecTruncated == ObjInit /\ [][TcNext]_vars

(***************************************************************************)
(* Containers and the caller's own names for their children.  Python       *)
(* binds names to objects: Array(list) and Structure(list) keep the list   *)
(* they are given, append keeps the element it is given when it is of      *)
(* TYPE, and a container built from a container decodes its encoding into  *)
(* new objects.  The caller starts with l = [Unsigned(1), Unsigned(2)]     *)
(* and v = Unsigned(3).                                                    *)
(***************************************************************************)
\* the most names, objects and operations of the program
MaxHolders == 4
MaxObjects == 6
MaxSteps == 4

AlContainers == {"TestArray", "Array", "Structure"}

\* what a holder shows: the contents of its value, or of its children in
\* order (with the class, they are the encoding of a container)
AlView(hp, h) ==
    IF h.kind = "value" THEN <<hp.vals[h.ref]>>
    ELSE [k \in 1..Len(hp.lists[h.ref]) |-> hp.vals[hp.lists[h.ref][k]]]

AlViews(hp) == [n \in 1..Len(hp.holders) |-> AlView(hp, hp.holders[n])]

\* the children of a list as arguments
AlArgs(hp, ref) ==
    [k \in 1..Len(hp.lists[ref]) |-> PyCdt(MkVal("Unsigned", hp.vals[hp.lists[ref][k]]))]

\* the value of a container holder
AlSelf(hp, h) == New(h.T, PyList(AlArgs(hp, h.ref))).v

\* the heap after an operation through holder by
AlDone(hp, op, by) ==
    [hp EXCEPT !.op = op, !.by = by, !.seen = AlViews(heap), !.steps = heap.steps + 1]

AlInit ==
    /\ classes = Class
    /\ lc = LcIdle
    /\ rg = RgIdle
    /\ obj = NoValue
    /\ last = NoOp
    /\ heap = [NoHeap EXCEPT !.vals = <<<<1>>, <<2>>, <<3>>>>,
                             !.lists = <<<<1, 2>>>>,
                             !.holders = <<[kind |-> "list", T |-> "", ref |-> 1],
                                           [kind |-> "value", T |-> "Unsigned", ref |-> 3]>>]

\* c = T(l) for the caller's list l: self.__dict__['values'] = value
AlFromList ==
    /\ heap.steps < MaxSteps /\ Len(heap.holders) < MaxHolders
    /\ \E T \in AlContainers : \E n \in 1..Len(heap.holders) :
          /\ heap.holders[n].kind = "list"
          /\ New(T, PyList(AlArgs(heap, heap.holders[n].ref))).ok
          /\ heap' = AlDone([heap EXCEPT !.holders =
                                Append(@, [kind |-> "container", T |-> T,
                                           ref |-> heap.holders[n].ref])],
                            "new", 0)
    /\ UNCHANGED <<classes, lc, rg, obj, last>>

\* c = T(other) for a container other: the children are decoded from the
\* encoding of other, each a new object in a new list
AlFromContainer ==
    /\ heap.steps < MaxSteps /\ Len(heap.holders) < MaxHolders
    /\ \E T \in AlContainers : \E n \in 1..Len(heap.holders) :
          /\ heap.holders[n].kind = "container"
          /\ LET built(r) ==
                     /\ r.ok
                     /\ Len(heap.vals) + Len(r.v.values) <= MaxObjects
                     /\ heap' = AlDone(
                            [heap EXCEPT
                                !.vals = @ \o [k \in 1..Len(r.v.values) |->
                                                  r.v.values[k].contents],
                                !.lists = Append(@, [k \in 1..Len(r.v.values) |->
                                                        Len(heap.vals) + k]),
                                !.holders = Append(@, [kind |-> "container", T |-> T,
                                                       ref |-> Len(heap.lists) + 1])],
                            "new", 0)
             IN  built(New(T, PyCdt(AlSelf(heap, heap.holders[n]))))
    /\ UNCHANGED <<classes, lc, rg, obj, last>>

\* c.append(v) for the caller's value v: an element of TYPE is kept as it is
AlAppend ==
    /\ heap.steps < MaxSteps
    /\ \E n, m \in 1..Len(heap.holders) :
          /\ heap.holders[n].kind = "container" /\ heap.holders[m].kind = "value"
          /\ classes[heap.holders[n].T].kind = "Array"
          /\ Len(heap.lists[heap.holders[n].ref]) < MaxArrayLen
          /\ LET self == AlSelf(heap, heap.holders[n])
                 element == PyCdt(MkVal("Unsigned", heap.vals[heap.holders[m].ref]))
             IN  /\ Array_append(self, element).ok
                 /\ isinstance(element, self.TYPE)
          /\ heap' = AlDone([heap EXCEPT !.lists[heap.holders[n].ref] =
                                             Append(@, heap.holders[m].ref)],
                            "append", n)
    /\ UNCHANGED <<classes, lc, rg, obj, last>>

\* c.clear() for an Array c: self.values.clear()
AlClear ==
    /\ heap.steps < MaxSteps
    /\ \E n \in 1..Len(heap.holders) :
          /\ heap.holders[n].kind = "container"
          /\ classes[heap.holders[n].T].kind = "Array"
          /\ Array_clear(AlSelf(heap, heap.holders[n])).ok
          /\ heap' = AlDone([heap EXCEPT !.lists[heap.holders[n].ref] = <<>>], "clear", n)
    /\ UNCHANGED <<classes, lc, rg, obj, last>>

\* c.values[k].set(value), l[k].set(value) or v.set(value)
AlSet ==
    /\ heap.steps < MaxSteps
    /\ \E n \in 1..Len(heap.holders) : \E k \in 1..MaxArrayLen : \E value \in {PyInt(5)} :
          LET h == heap.holders[n]
              target == IF h.kind = "value" THEN h.ref ELSE heap.lists[h.ref][k]
              changed(r) ==
                  /\ r.ok
                  /\ heap' = AlDone([heap EXCEPT !.vals[target] = r.obj.contents], "set", n)
          IN  /\ IF h.kind = "value" THEN k = 1 ELSE k <= Len(heap.lists[h.ref])
              /\ changed(SimpleDataType_set(MkVal("Unsigned", heap.vals[target]), value))
    /\ UNCHANGED <<classes, lc, rg, obj, last>>

\* l.pop() by the caller
AlListPop ==
    /\ heap.steps < MaxSteps
    /\ \E n \in 1..Len(heap.holders) :
          /\ heap.holders[n].kind = "list"
          /\ heap.lists[heap.holders[n].ref] # <<>>
          /\ heap' = AlDone([heap EXCEPT !.lists[heap.holders[n].ref] =
                                             SubSeq(@, 1, Len(@) - 1)],
                            "pop", n)
    /\ UNCHANGED <<classes, lc, rg, obj, last>>

AlNext ==
    \/ AlFromList
    \/ AlFromContainer
    \/ AlAppend
    \/ AlClear
    \/ AlSet
    \/ AlListPop

SpecAlias == AlInit /\ [][AlNext]_vars

(***************************************************************************)
(* Shifts of the integer types: a value is decoded, then shifted left and  *)
(* right.                                                                  *)
(***************************************************************************)
\* the most shifts of one value
MaxShifts == 2

\* one bit, a few bits, and the whole width
ShiftAmounts(T) == {1, 3, 8 * classes[T].LENGTH}

ShNew ==
    /\ obj = NoValue /\ last = NoOp
    /\ \E i \in DigitalInits :
          LET built(r) ==
                  /\ obj' = r.v
                  /\ last' = [NoOp EXCEPT !.op = "new", !.arg = PyBytes(i[2]), !.ok = r.ok,
                                          !.err = r.err]
          IN  built(New(i[1], PyBytes(i[2])))
    /\ UNCHANGED <<classes, heap, lc, rg>>

\* obj << other; index counts the shifts of obj
ShLshift ==
    /\ obj # NoValue /\ last.index < MaxShifts
    /\ \E other \in ShiftAmounts(obj.T) :
          LET returned(r) ==
                  /\ obj' = r.obj
                  /\ last' = Done("lshift", PyInt(other), last.index + 1, obj, r)
          IN  returned(Digital_lshift(obj, other))
    /\ UNCHANGED <<classes, heap, lc, rg>>

\* obj >> other
ShRshift ==
    /\ obj # NoValue /\ last.index < MaxShifts
    /\ \E other \in ShiftAmounts(obj.T) :
          LET returned(r) ==
                  /\ obj' = r.obj
                  /\ last' = Done("rshift", PyInt(other), last.index + 1, obj, r)
          IN  returned(Digital_rshift(obj, other))
    /\ UNCHANGED <<classes, heap, lc, rg>>

ShNext == ShNew \/ ShLshift \/ ShRshift

SpecShift == ObjInit /\ [][ShNext]_vars

(***************************************************************************)
(* Containers decoded from buffers whose children carry every kind of      *)
(* header: an Array or a Structure is built from a count and the           *)
(* encodings of its children, one after the other.                         *)
(***************************************************************************)
\* the most children of a decoded container
MaxChildren == 2

\* encodings of a child: Unsigned, Boolean (1 and 255), OctetString and
\* BitString with short and long headers, an Array of one Unsigned
PtChildren ==
    {<<17, 5>>, <<3, 1>>, <<3, 255>>, <<9, 1, 65>>, <<9, 129, 1, 65>>, <<9, 129, 2, 65, 9>>,
     <<9, 130, 0, 1, 9>>, <<4, 3, 160>>, <<4, 129, 3, 160>>, <<1, 1, 17, 5>>,
     <<1, 129, 1, 17, 5>>}

\* the children of a buffer; those of an Array have one tag
PtChildLists(T) ==
    {l \in UNION {[1..n -> PtChildren] : n \in 0..MaxChildren} :
        T = "Array" => \A k \in 1..Len(l) : l[k][1] = l[1][1]}

\* obj = T(buffer), once
PtNew ==
    /\ obj = NoValue /\ last = NoOp
    /\ \E T \in {"Array", "Structure"} : \E l \in PtChildLists(T) :
          LET buffer == <<classes[T].TAG, Len(l)>> \o Flatten(l)
              built(r) ==
                  /\ obj' = r.v
                  /\ last' = [NoOp EXCEPT !.op = "new", !.arg = PyBytes(buffer),
                                          !.ok = r.ok, !.err = r.err,
                                          !.before = MkVal(T, NoAttr)]
          IN  built(New(T, PyBytes(buffer)))
    /\ UNCHANGED <<classes, heap, lc, rg>>

PtNext == PtNew

SpecPartition == ObjInit /\ [][PtNext]_vars

(***************************************************************************)
(* C1: for every validly constructed value v of a concrete scalar or       *)
(* container class other than Boolean, the class built from v.encoding     *)
(* has the encoding of v, and copy() returns such a value.                 *)
(***************************************************************************)
\* v is validly constructed: it has an encoding, and contents of the length
\* its class fixes or its bit length asks for
C1_Valid(v) ==
    LET c == classes[v.T]
        fixed == IF c.kind \in {"Bcd", "Enum"} THEN 1 ELSE c.LENGTH
    IN  /\ has_encoding(v)
        /\ fixed > 0 => Len(v.contents) = fixed
        /\ c.kind = "BitString" => Len(v.contents) = ceil8(v.length)

C1_RoundTrip ==
    (last.op = "copy" /\ obj.T # "Boolean" /\ C1_Valid(obj)) =>
        /\ last.ok
        /\ encoding(last.ret) = encoding(obj)
        /\ New(obj.T, PyBytes(encoding(obj))) = Ok(last.ret)

(***************************************************************************)
(* C3: for an integer class declared with MIN and MAX, construction and    *)
(* set succeed exactly for the integers MIN..MAX and fail with the         *)
(* out-of-range error for every other integer; for a class declared with a *)
(* constant VALUE they succeed only for VALUE; whatever the form of the    *)
(* argument: int, str, encoded bytes, bytearray contents, same-class value.*)
(***************************************************************************)
\* the integer an argument of class T writes, when it writes one
C3_Denotes(T, value) ==
    LET c == classes[T]
        signed == value.b # <<>> /\ value.b[1] \in {43, 45}
        body == IF signed THEN Tail(value.b) ELSE value.b
    IN  CASE value.form \in {"int", "bool"} -> [def |-> TRUE, i |-> value.i]
          [] value.form = "str" ->
                [def |-> isdigit(body),
                 i |-> IF signed /\ value.b[1] = 45 THEN -DecimalOf(body) ELSE DecimalOf(body)]
          [] value.form = "bytes" ->
                [def |-> SliceTo(value.b, 1) = <<c.TAG>> /\ Len(value.b) > c.LENGTH,
                 i |-> IntOf(c.SIGNED, Slice(value.b, 1, 1 + c.LENGTH))]
          [] value.form = "bytearray" -> [def |-> TRUE, i |-> IntOf(c.SIGNED, value.b)]
          [] isinstance(value, T) -> [def |-> TRUE, i |-> IntOf(c.SIGNED, value.v.contents)]
          [] OTHER -> [def |-> FALSE, i |-> 0]

C3_Range ==
    LET T == last.before.T
        c == classes[T]
        d == C3_Denotes(T, last.arg)
    IN  (last.op \in {"new", "set"} /\ c.kind = "Digital" /\ d.def) =>
            /\ (c.hasMIN /\ c.hasMAX) =>
                  /\ last.ok <=> (c.MIN <= d.i /\ d.i <= c.MAX)
                  /\ ~last.ok => last.err = "out_of_range"
            /\ c.hasVALUE => (last.ok <=> d.i = c.VALUE)

\* a ShiftTime holding 900 has refused set(901)
C3_Witness ==
    /\ last.op = "set" /\ last.before.T = "ShiftTime"
    /\ last.before.contents = <<3, 132>>
    /\ last.arg = PyInt(901)
    /\ ~last.ok /\ last.err = "out_of_range"

(***************************************************************************)
(* C6: when set on a scalar value (integer, Enum, Boolean, string,         *)
(* BitString, Date, Time, DateTime) is given an argument that fails        *)
(* construction or validation, the call fails, the contents and the bit    *)
(* length of a BitString are what they were, and no callback was invoked.  *)
(***************************************************************************)
C6_FailedSetKeeps ==
    (/\ last.op = "set"
     /\ classes[last.before.T].kind \in
            {"Digital", "Enum", "Boolean", "String", "BitString", "Date", "Time", "DateTime"}
     /\ ~New(last.before.T, last.arg).ok) =>
        /\ ~last.ok
        /\ obj.contents = last.before.contents
        /\ obj.length = last.before.length
        /\ last.events = <<>>

\* a BitString of three bits with both callbacks has refused set(300)
C6_Witness ==
    /\ last.op = "set" /\ last.before.T = "BitString" /\ ~last.ok
    /\ last.arg = PyInt(300)
    /\ last.before.contents = <<160>> /\ last.before.length = 3
    /\ last.before.cb_preset /\ last.before.cb_post_set

C4_SchemaLess ==
    \A fields \in StFieldLists :
        (last.op = "new" /\ last.before.T = "Structure"
            /\ last.arg = PyBytes(StEncoding(fields))) =>
            /\ last.ok
            /\ Len(obj.values) = Len(fields)
            /\ \A k \in 1..Len(fields) : obj.values[k].T = fields[k].T
            /\ encoding(obj) = StEncoding(fields)

(***************************************************************************)
(* C7: a set on an Array or a Structure that fails leaves the children and *)
(* the encoding of the container as they were before the call.             *)
(***************************************************************************)
C7_FailedSetKeeps ==
    (obj # NoValue /\ last.op = "set" /\ ~last.ok) =>
        /\ obj.values = last.before.values
        /\ encoding(obj) = encoding(last.before)

(***************************************************************************)
(* C8: a successful set on a value with both callbacks registered invokes  *)
(* the pre-set callback once while the value is as it was before the call, *)
(* then replaces the contents, then invokes the post-set callback once on  *)
(* the value as the call leaves it.                                        *)
(***************************************************************************)
C8_CallbackOrder ==
    (obj # NoValue /\ last.op = "set" /\ last.ok
        /\ last.before.cb_preset /\ last.before.cb_post_set) =>
        /\ Len(last.events) = 2
        /\ last.events[1] = Event("pre", last.before)
        /\ last.events[2] = Event("post", obj)

RECURSIVE C10_Children(_)
\* the encodings of the children, concatenated in list order
C10_Children(values) ==
    IF values = <<>> THEN <<>> ELSE encoding(Head(values)) \o C10_Children(Tail(values))

(***************************************************************************)
(* C10: after any sequence of append, insert, pop, remove and clear the    *)
(* encoding of an Array is tag 1, the number of its children, and the      *)
(* encodings of the children in list order; append places the new element  *)
(* last, and pop(i) removes the i-th child, returns it and leaves one      *)
(* child less.                                                             *)
(***************************************************************************)
C10_ArrayEncoding ==
    obj # NoValue =>
        /\ encoding(obj) = <<1, Len(obj.values)>> \o C10_Children(obj.values)
        /\ (last.op = "append" /\ last.ok) =>
              /\ Len(obj.values) = Len(last.before.values) + 1
              /\ SubSeq(obj.values, 1, Len(last.before.values)) = last.before.values
              /\ last.arg.form = "int" =>
                    IntOfUnsigned(obj.values[Len(obj.values)].contents) = last.arg.i
              /\ isinstance(last.arg, obj.TYPE) => obj.values[Len(obj.values)] = last.arg.v
        /\ (last.op = "pop" /\ last.ok /\ last.arg.i >= 0) =>
              /\ last.ret = last.before.values[last.arg.i + 1]
              /\ Len(obj.values) = Len(last.before.values) - 1
              /\ \A k \in 1..Len(obj.values) :
                    obj.values[k] = last.before.values[IF k <= last.arg.i THEN k ELSE k + 1]

\* Unsigned 1, 2, 4 then pop(0): 1 is returned, 2 and 4 are left
C10_Witness ==
    /\ last.op = "pop" /\ last.ok /\ last.arg = PyInt(0)
    /\ last.before.values = <<U8(1), U8(2), U8(4)>>
    /\ last.ret = U8(1)
    /\ encoding(obj) = <<1, 2, 17, 2, 17, 4>>

(***************************************************************************)
(* C11: every child of an Array is an instance of the TYPE of the array,   *)
(* however the array was constructed and after any append, insert and set; *)
(* a candidate that is not of TYPE and cannot be made one is rejected with *)
(* an error, neither stored nor dropped in silence.                        *)
(***************************************************************************)
C11_ChildrenOfType ==
    obj # NoValue =>
        /\ obj.TYPE # "None" =>
              \A k \in 1..Len(obj.values) : issubclass(obj.values[k].T, obj.TYPE)
        /\ (last.op \in {"append", "insert"} /\ last.before.TYPE # "None"
                /\ last.arg.form = "cdt" /\ ~isinstance(last.arg, last.before.TYPE)
                /\ ~New(last.before.TYPE, last.arg).ok) => ~last.ok

(***************************************************************************)
(* C12: a Structure of a class with a declared schema has as many children *)
(* as ELEMENTS and its i-th child is an instance of the i-th element type, *)
(* however it was constructed and after set and indexed assignment; a      *)
(* list, tuple or encoding of another number of elements is rejected.      *)
(***************************************************************************)
C12_ChildrenOfSchema ==
    (obj # NoValue /\ classes[obj.T].hasELEMENTS) =>
        /\ Len(obj.values) = Len(obj.ELEMENTS)
        /\ \A k \in 1..Len(obj.values) : issubclass(obj.values[k].T, obj.ELEMENTS[k])
        /\ (last.op = "new" /\ last.arg.form \in {"list", "tuple"}
                /\ Len(last.arg.l) # Len(classes[obj.T].ELEMENTS)) => ~last.ok

(***************************************************************************)
(* C13: a Boolean decoded from 03 00 is false and from 03 and any other    *)
(* byte is true with the encoding 03 01; every Boolean, however it was     *)
(* constructed or set, encodes as 03 00 or 03 01; and parse("true") equals *)
(* Boolean(1).                                                             *)
(***************************************************************************)
C13_BooleanCanonical ==
    (obj # NoValue /\ obj.T = "Boolean") =>
        /\ (last.op = "new" /\ last.arg.form = "bytes" /\ Len(last.arg.b) = 2
                /\ last.arg.b[1] = 3) =>
              obj.contents = (IF last.arg.b[2] = 0 THEN <<0>> ELSE <<1>>)
        /\ has_encoding(obj) /\ encoding(obj) \in {<<3, 0>>, <<3, 1>>}
        /\ cdt_eq(Boolean_parse(<<116, 114, 117, 101>>).v, New("Boolean", PyInt(1)).v)

(***************************************************************************)
(* C14: for every str s of characters 0 and 1, of any length, none and     *)
(* lengths that are no multiple of 8 included, BitString.parse(s) succeeds *)
(* and its to_transcript() is s; its encoding is the tag 04, the number of *)
(* bits as the length header, and ceil(len(s) / 8) bytes holding the bits  *)
(* from the most significant bit on, padded with zero bits: parse("1001")  *)
(* encodes as 04 04 90.                                                    *)
(***************************************************************************)
\* bit i of s as a number, 0 past its end
C14_Bit(s, i) == IF i <= Len(s) THEN s[i] - 48 ELSE 0

\* the bytes that hold the bits of s, the first bit the most significant
C14_Pack(s) ==
    [j \in 1..((Len(s) + 7) \div 8) |->
        128 * C14_Bit(s, 8 * j - 7) + 64 * C14_Bit(s, 8 * j - 6)
        + 32 * C14_Bit(s, 8 * j - 5) + 16 * C14_Bit(s, 8 * j - 4)
        + 8 * C14_Bit(s, 8 * j - 3) + 4 * C14_Bit(s, 8 * j - 2)
        + 2 * C14_Bit(s, 8 * j - 1) + C14_Bit(s, 8 * j)]

C14_ParseTranscript ==
    (last.op = "parse" /\ \A k \in 1..Len(last.arg.b) : last.arg.b[k] \in {48, 49}) =>
        /\ last.ok
        /\ BitString_str(obj) = last.arg.b
        /\ encoding(obj) = <<4, Len(last.arg.b)>> \o C14_Pack(last.arg.b)

C14_Witness ==
    /\ last.op = "parse" /\ last.ok
    /\ last.arg.b = <<49, 48, 48, 49>>
    /\ BitString_str(obj) = <<49, 48, 48, 49>>
    /\ encoding(obj) = <<4, 4, 144>>

(***************************************************************************)
(* C15: indexed bit assignment, inverse, left rotation and right rotation  *)
(* of a BitString leave its bit length as it was, and its contents are     *)
(* ceil(length / 8) bytes that hold the resulting bits, re-packed with     *)
(* zero padding by every operation that changed a bit or rotated; an       *)
(* assignment of a bit or an inverse changes the addressed bit only; and a *)
(* right rotation by n after a left rotation by n restores the bit string. *)
(***************************************************************************)
\* position i of a str of n bits taken n places to the left, from 1
C15_Rot(s, n) == [k \in 1..Len(s) |-> s[((k - 1 + n) % Len(s)) + 1]]

\* the place in a str of n bits that the Python index key addresses, from 1
C15_At(s, key) == (IF key < 0 THEN key + Len(s) ELSE key) + 1

C15_BitOps ==
    (last.op \in {"setitem", "inverse", "lshift", "rshift"}) =>
        LET before == BitString_str(last.before)
            after == BitString_str(obj)
        IN  /\ obj.length = last.before.length
            /\ Len(obj.contents) = (obj.length + 7) \div 8
            /\ Len(after) = obj.length
            /\ ~last.ok => obj = last.before
            /\ (last.ok /\ ~(last.op \in {"lshift", "rshift"} /\ last.arg.i = 0)) =>
                  obj.contents = C14_Pack(after)
            /\ (last.ok /\ last.op = "setitem") =>
                  after = [before EXCEPT ![C15_At(before, last.index)] = 48 + last.arg.i]
            /\ (last.ok /\ last.op = "inverse") =>
                  after = [before EXCEPT ![C15_At(before, last.index)] = 97 - @]
            /\ (last.ok /\ last.op = "lshift") =>
                  /\ after = C15_Rot(before, last.arg.i)
                  /\ BitString_rshift(obj, last.arg.i).ok
                  /\ BitString_str(BitString_rshift(obj, last.arg.i).obj) = before
            /\ (last.ok /\ last.op = "rshift") =>
                  /\ before = C15_Rot(after, last.arg.i)
                  /\ BitString_lshift(obj, last.arg.i).ok
                  /\ BitString_str(BitString_lshift(obj, last.arg.i).obj) = before

\* nine bits 101000001 rotated two places to the left
C15_Witness ==
    /\ last.op = "lshift" /\ last.ok /\ last.arg.i = 2
    /\ obj.length = 9
    /\ BitString_str(last.before) = <<49, 48, 49, 48, 48, 48, 48, 48, 49>>
    /\ BitString_str(obj) = <<49, 48, 48, 48, 48, 48, 49, 49, 48>>
    /\ obj.contents = <<131, 0>>

(***************************************************************************)
(* C16: for every value v of an integer type, Boolean, BitString,          *)
(* OctetString, VisibleString, and of an Array or a Structure of them,     *)
(* T.parse(v.to_transcript()) succeeds and equals v; the transcript of a   *)
(* container is the list of its children's transcripts in order and the    *)
(* transcript of a scalar is a str.                                        *)
(***************************************************************************)
C16_ParseInverse ==
    (last.op = "parse") =>
        /\ last.ok
        /\ cdt_eq(obj, last.before)
        /\ IF classes[last.before.T].kind \in {"Array", "Structure"}
           THEN /\ last.arg.form = "list"
                /\ Len(last.arg.l) = Len(last.before.values)
                /\ \A k \in 1..Len(last.arg.l) :
                      last.arg.l[k] = to_transcript(last.before.values[k])
           ELSE last.arg.form = "str"

(***************************************************************************)
(* C17: for the DateTime with only hour 10 and minute 0 specified and the  *)
(* point 2021-05-10T00:00:00Z, get_right_nearest_datetime returns          *)
(* 2021-05-10T10:00:00Z and get_left_nearest_datetime returns              *)
(* 2021-05-09T10:00:00Z.                                                   *)
(***************************************************************************)
C17_NearestExample ==
    (/\ obj.contents = <<255, 255, 255, 255, 255, 10, 0, 255, 255, 128, 0, 255>>
     /\ last.op \in {"left", "right"}
     /\ last.arg = datetime(2021, 5, 10, 0, 0, 0, 0, 0)) =>
        /\ last.op = "right" => last.ret = Found(datetime(2021, 5, 10, 10, 0, 0, 0, 0))
        /\ last.op = "left" => last.ret = Found(datetime(2021, 5, 9, 10, 0, 0, 0, 0))

(***************************************************************************)
(* C18: a result r that get_left_nearest_datetime(p) of a partial DateTime *)
(* d returns is not after p, agrees with d on every specified field       *)
(* (year, month, day, weekday, hour, minute, second, hundredths), and no   *)
(* instant that matches d lies strictly between r and p; a result of       *)
(* get_right_nearest_datetime(p) is not before p, matches d, and no        *)
(* instant that matches d lies from p on before it.                        *)
(***************************************************************************)
\* the fields of a datetime in the order of their weight
C18_Fields(x) == <<x.year, x.month, x.day, x.hour, x.minute, x.second, x.hs>>

RECURSIVE C18_Less(_, _)
\* a before b, of two sequences of fields
C18_Less(a, b) ==
    a # <<>> /\ (a[1] < b[1] \/ (a[1] = b[1] /\ C18_Less(Tail(a), Tail(b))))

\* the datetime x on the clock that is off minutes ahead of UTC, for a
\* difference of less than a day
C18_Local(x, off) ==
    LET total == x.hour * 60 + x.minute + off - x.off
        day == IF total < 0
               THEN IF x.day > 1 THEN <<x.year, x.month, x.day - 1>>
                    ELSE IF x.month > 1
                    THEN <<x.year, x.month - 1, days_in_month(x.year, x.month - 1)>>
                    ELSE <<x.year - 1, 12, 31>>
               ELSE IF total < 1440 THEN <<x.year, x.month, x.day>>
               ELSE IF x.day < days_in_month(x.year, x.month)
               THEN <<x.year, x.month, x.day + 1>>
               ELSE IF x.month < 12 THEN <<x.year, x.month + 1, 1>>
               ELSE <<x.year + 1, 1, 1>>
    IN  day \o <<(total % 1440) \div 60, total % 60, x.second, x.hs>>

\* the fields q match the contents c of the DateTime
C18_Matches(c, q) ==
    /\ c[1] * 256 + c[2] \in {65535, q[1]}
    /\ c[3] \in {255, q[2]}
    /\ c[4] \in {255, q[3]}
    /\ valid_date(q[1], q[2], q[3])
    /\ c[5] \in {255, weekday(q[1], q[2], q[3]) + 1}
    /\ c[6] \in {255, q[4]}
    /\ c[7] \in {255, q[5]}
    /\ c[8] \in {255, q[6]}
    /\ c[9] \in {255, q[7]}

RECURSIVE C18_TimeBetween(_, _, _, _, _, _, _)
\* some time of day matches c, with its fields from the k-th on above
\* those of lo where above is set and below those of hi where below is set,
\* and is not lo itself unless from_lo
C18_TimeBetween(c, k, lo, hi, above, below, from_lo) ==
    IF k > 7 THEN (~above \/ from_lo) /\ ~below
    ELSE IF ~above /\ ~below THEN TRUE
    ELSE \E v \in (IF c[k + 2] # 255 THEN {c[k + 2]}
                   ELSE 0..(IF k = 4 THEN 23 ELSE IF k = 7 THEN 99 ELSE 59)) :
            /\ above => v >= lo[k]
            /\ below => v <= hi[k]
            /\ C18_TimeBetween(c, k + 1, lo, hi, above /\ v = lo[k], below /\ v = hi[k],
                               from_lo)

\* some instant matches c after lo, or from lo on, and before hi
C18_Between(c, lo, hi, from_lo) ==
    \E y \in lo[1]..hi[1], m \in 1..12, d \in 1..31 :
        /\ C18_Matches([c EXCEPT ![6] = 255, ![7] = 255, ![8] = 255, ![9] = 255],
                       <<y, m, d, 0, 0, 0, 0>>)
        /\ ~C18_Less(<<y, m, d>>, SubSeq(lo, 1, 3))
        /\ ~C18_Less(SubSeq(hi, 1, 3), <<y, m, d>>)
        /\ C18_TimeBetween(c, 4, lo, hi, <<y, m, d>> = SubSeq(lo, 1, 3),
                           <<y, m, d>> = SubSeq(hi, 1, 3), from_lo)

C18_Nearest ==
    (last.op \in {"left", "right"} /\ last.ret.st = "ret") =>
        LET r == C18_Fields(last.ret.dt)
            p == C18_Local(last.arg, last.ret.dt.off)
        IN  /\ C18_Matches(obj.contents, r)
            /\ last.op = "left" =>
                  ~C18_Less(p, r) /\ ~C18_Between(obj.contents, r, p, FALSE)
            /\ last.op = "right" =>
                  ~C18_Less(r, p) /\ ~C18_Between(obj.contents, p, r, TRUE)

(***************************************************************************)
(* C19: every DateTime, built from encoded bytes, from text or from a host *)
(* datetime, or modified by set_deviation, has a deviation that is 0x8000  *)
(* or a minute count in -720..720; the attempt to build or set another     *)
(* deviation fails with an out-of-range error and leaves the value as it   *)
(* was; a deviation written in the text is stored as that signed number.   *)
(***************************************************************************)
\* the deviation an argument of the constructor asks for: the signed two
\* bytes of an encoding, the number of a text, the offset of a datetime
C19_Asked(value) ==
    CASE value.form = "bytes" /\ value.b[1] = 25 ->
            LET n == value.b[11] * 256 + value.b[12] IN IF n >= 32768 THEN n - 65536 ELSE n
      [] value.form = "str" /\ Len(split2(value.b)) = 3 /\ py_int(split2(value.b)[3]).ok ->
            py_int(split2(value.b)[3]).i
      [] value.form = "datetime" /\ value.i # NoOffset -> value.i
      [] OTHER -> -32768

C19_Allowed == {-32768} \cup -720..720

C19_Deviation ==
    /\ (obj # NoValue /\ obj.T = "DateTime") => DateTime_deviation(obj) \in C19_Allowed
    /\ (last.op = "new" /\ C19_Asked(last.arg) \notin C19_Allowed) =>
          ~last.ok /\ last.err = "out_of_range"
    /\ (/\ last.op = "new" /\ last.ok /\ last.arg.form = "str"
        /\ Len(split2(last.arg.b)) = 3 /\ py_int(split2(last.arg.b)[3]).ok) =>
          DateTime_deviation(obj) = C19_Asked(last.arg)
    /\ (last.op = "set_deviation" /\ last.arg.i \notin C19_Allowed) =>
          ~last.ok /\ last.err = "out_of_range" /\ obj = last.before
    /\ (last.op = "set_deviation" /\ last.arg.i \in C19_Allowed) =>
          last.ok /\ DateTime_deviation(obj) = last.arg.i

(***************************************************************************)
(* C20: each date and time field setter accepts exactly the range of its   *)
(* field and its sentinels (year 1..9999 or 0xFFFF; month 1..12 or         *)
(* 0xFD, 0xFE, 0xFF; day 1..31 or 0xFD, 0xFE, 0xFF; weekday 1..7 or 0xFF;  *)
(* hour 0..23, minute 0..59, second 0..59, hundredths 0..99, each also     *)
(* 0xFF); any other value raises OutOfRange and changes nothing; an        *)
(* accepted value changes the bytes of that field only.                    *)
(***************************************************************************)
\* the values the setter op is to accept
C20_Range(op) ==
    CASE op = "set_year" -> 1..9999 \cup {65535}
      [] op = "set_month" -> 1..12 \cup {253, 254, 255}
      [] op = "set_day" -> 1..31 \cup {253, 254, 255}
      [] op = "set_weekday" -> 1..7 \cup {255}
      [] op = "set_hour" -> 0..23 \cup {255}
      [] op = "set_minute" -> 0..59 \cup {255}
      [] op = "set_second" -> 0..59 \cup {255}
      [] op = "set_hundredths" -> 0..99 \cup {255}

\* the contents c with the bytes of the field of op holding value
C20_Written(op, c, value) ==
    LET time == IF Len(c) = 4 THEN 0 ELSE 5
    IN  CASE op = "set_year" -> [c EXCEPT ![1] = value \div 256, ![2] = value % 256]
          [] op = "set_month" -> [c EXCEPT ![3] = value]
          [] op = "set_day" -> [c EXCEPT ![4] = value]
          [] op = "set_weekday" -> [c EXCEPT ![5] = value]
          [] op = "set_hour" -> [c EXCEPT ![time + 1] = value]
          [] op = "set_minute" -> [c EXCEPT ![time + 2] = value]
          [] op = "set_second" -> [c EXCEPT ![time + 3] = value]
          [] op = "set_hundredths" -> [c EXCEPT ![time + 4] = value]

C20_Setters ==
    last.op \in DateSetters \cup {"set_hour", "set_minute", "set_second", "set_hundredths"} =>
        IF last.arg.i \in C20_Range(last.op)
        THEN last.ok /\ obj.contents = C20_Written(last.op, last.before.contents, last.arg.i)
        ELSE ~last.ok /\ last.err = "out_of_range" /\ obj = last.before

(***************************************************************************)
(* C21: a Date, and the date of a DateTime, is rejected with               *)
(* ValidationError exactly when its year, month, day and weekday are all   *)
(* specified and the weekday differs from the weekday of that date in the  *)
(* calendar; so at construction, and so in set_weekday, set_day,           *)
(* set_month and set_year, which leave the contents as they were when      *)
(* they reject.                                                            *)
(***************************************************************************)
\* the five date bytes d are all specified and name a weekday that the
\* date does not fall on
C21_Differs(d) ==
    /\ d[1] * 256 + d[2] # 65535
    /\ d[3] \notin {253, 254, 255}
    /\ d[4] \notin {253, 254, 255}
    /\ d[5] # 255
    /\ valid_date(d[1] * 256 + d[2], d[3], d[4])
    /\ weekday(d[1] * 256 + d[2], d[3], d[4]) + 1 # d[5]

C21_Weekday ==
    /\ (last.op = "new" /\ last.arg.form = "bytes" /\ last.arg.b[1] \in {25, 26}) =>
          (~last.ok /\ last.err = "validation") <=> C21_Differs(SubSeq(last.arg.b, 2, 6))
    /\ (last.op \in DateSetters /\ last.arg.i \in C20_Range(last.op)) =>
          IF C21_Differs(SubSeq(C20_Written(last.op, last.before.contents, last.arg.i), 1, 5))
          THEN ~last.ok /\ last.err = "validation" /\ obj = last.before
          ELSE last.err # "validation"

(***************************************************************************)
(* C22: for every Date, Time and DateTime v, with fields not specified,    *)
(* with the last and penultimate sentinels and with a weekday, the text of *)
(* v parses back to a value equal to v, through T.parse(v.to_transcript()) *)
(* and through T(str(v)); in a partly written text every omitted segment   *)
(* becomes the not-specified sentinel of its field.                        *)
(***************************************************************************)
C22_TextRoundTrip ==
    /\ last.op \in {"from_str", "parse"} =>
          last.ok /\ last.ret.T = obj.T /\ last.ret.contents = obj.contents
    /\ (last.op = "new" /\ last.arg.form = "str" /\ Len(split2(last.arg.b)) = 1) =>
          last.ok /\ SubSeq(obj.contents, 6, 11) = <<255, 255, 255, 255, 128, 0>>
    /\ (last.op = "new" /\ last.arg.form = "str" /\ Len(split2(last.arg.b)) = 2) =>
          last.ok /\ SubSeq(obj.contents, 10, 11) = <<128, 0>>

(***************************************************************************)
(* C23: a class built from a buffer that keeps the tag of an encoding but  *)
(* ends before the encoding does (within the length bytes of a long-form   *)
(* header, within the content a length header declares, or within the      *)
(* payload of a fixed-size class) fails and yields no value.               *)
(***************************************************************************)
C23_CutShort(T, b) ==
    \E e \in TcEncodings(T) : Len(b) < Len(e) /\ b = SubSeq(e, 1, Len(b))

C23_Truncated ==
    (last.op = "new" /\ last.arg.form = "bytes" /\ last.before.T \in TcTypes
        /\ C23_CutShort(last.before.T, last.arg.b))
        => (~last.ok /\ obj = NoValue)

(***************************************************************************)
(* C24: for every length n >= 0x80, encode_length(n) is the byte 0x80 | k  *)
(* followed by the k big-endian bytes of n, k the least number of bytes    *)
(* that hold n, for lengths of more than four bytes too.                   *)
(***************************************************************************)
C24_MinimalLongForm ==
    (lc.pc # "start" /\ ~DigitsLess(lc.n, 128)) => lc.enc = <<128 + Len(lc.n)>> \o lc.n

(***************************************************************************)
(* C25: no child is shared between containers or with the caller: after a  *)
(* container is built from the caller's list or from another container,    *)
(* or an existing value is appended, an operation through one holder       *)
(* (set on a child, append, clear, a change of the caller's list or value) *)
(* leaves what every other holder shows as it was.                         *)
(***************************************************************************)
C25_NoSharing ==
    \A n \in 1..Len(heap.seen) : n # heap.by => AlView(heap, heap.holders[n]) = heap.seen[n]

(***************************************************************************)
(* C26: v.get_copy(x), for an x the class of v accepts, returns a value of *)
(* the class of v that holds x as a value built from x does; v is as it    *)
(* was, callbacks included, and no callback of v has run.                  *)
(***************************************************************************)
C26_Holds(T, x, new) ==
    LET built(r) == r.ok => (new.T = T /\ new.contents = r.v.contents /\ new.length = r.v.length)
    IN  built(New(T, x))

C26_GetCopy ==
    last.op = "get_copy" =>
        /\ obj = last.before
        /\ last.events = <<>>
        /\ New(obj.T, last.arg).ok => last.ok
        /\ last.ok => C26_Holds(obj.T, last.arg, last.ret)

(***************************************************************************)
(* C27: a shift of an integer value rotates its bits within the 8 * LENGTH *)
(* bits of its class: the bits after a shift left by n are the bits before *)
(* it n places further left, those that leave at the top entering at the   *)
(* bottom, and the reverse for a shift right; so a shift by 8 * LENGTH     *)
(* restores the contents, a shift right by n after a shift left by n       *)
(* restores them too, and the contents keep LENGTH bytes.                  *)
(***************************************************************************)
C27_Bits(c) == [k \in 1..(8 * Len(c)) |-> (c[((k - 1) \div 8) + 1] \div Pow2(7 - ((k - 1) % 8))) % 2]

C27_Rotation ==
    (last.op \in {"lshift", "rshift"} /\ last.ok) =>
        LET n == IF last.op = "lshift" THEN last.arg.i ELSE 8 * Len(obj.contents) - last.arg.i
        IN  /\ Len(obj.contents) = classes[obj.T].LENGTH
            /\ C27_Bits(obj.contents) = C15_Rot(C27_Bits(last.before.contents), n)
            /\ last.arg.i = 8 * classes[obj.T].LENGTH => obj.contents = last.before.contents
            /\ last.op = "lshift" =>
                   Digital_rshift(obj, last.arg.i).obj.contents = last.before.contents

(***************************************************************************)
(* C28: get_left_nearest_datetime, get_right_nearest_datetime and          *)
(* Time.get_left_nearest_time return an instant or None and raise nothing, *)
(* whatever fields are specified; and they return None only when no        *)
(* instant that matches the specified fields lies on that side of the      *)
(* point, down to year 1 and up to year 9999.                              *)
(***************************************************************************)
\* some instant matches c on the side of p; the weekdays of the calendar
\* repeat every 400 years, so an unspecified year is tried that far
C28_Exists(c, p, left) ==
    LET year == c[1] * 256 + c[2]
        lo == IF left THEN <<IF year = 65535 THEN Max(1, p[1] - 400) ELSE year, 1, 1, 0, 0, 0, 0>>
              ELSE p
        hi == IF left THEN p
              ELSE <<IF year = 65535 THEN p[1] + 400 ELSE year, 12, 31, 23, 59, 59, 99>>
    IN  C18_Between(c, lo, hi, TRUE)

C28_Total ==
    /\ last.op \in {"left", "right", "time_left"} => last.ok
    /\ (last.op \in {"left", "right"} /\ last.ret.st = "none") =>
          ~C28_Exists(obj.contents, C18_Fields(last.arg), last.op = "left")
    /\ (last.op = "time_left" /\ last.ret.st = "none") =>
          ~C18_TimeBetween(<<0, 0, 0, 0, 0>> \o obj.contents, 4, <<0, 0, 0, 0, 0, 0, 0>>,
                           <<0, 0, 0, last.arg.hour, last.arg.minute, last.arg.second,
                             last.arg.hs>>, FALSE, TRUE, TRUE)

(***************************************************************************)
(* C29: a value of a fixed-size scalar class has contents of the size of   *)
(* its class (LENGTH bytes for the integer classes, 1 for Boolean, Enum    *)
(* and Bcd, 5 for Date, 4 for Time, 12 for DateTime), whatever it was      *)
(* built from and after every set, setter, shift and set_clock_status.     *)
(***************************************************************************)
C29_Size(T) ==
    LET c == classes[T]
    IN  CASE c.kind \in {"Digital", "Enum", "Date", "Time", "DateTime"} -> c.LENGTH
          [] c.kind \in {"Boolean", "Bcd"} -> 1
          [] OTHER -> NoLength

C29_FixedSize ==
    (obj # NoValue /\ C29_Size(obj.T) # NoLength) => Len(obj.contents) = C29_Size(obj.T)

(***************************************************************************)
(* C30: the children of an Array or Structure decoded from a buffer        *)
(* partition its content bytes in order: each child is what its class      *)
(* decodes from the bytes that start where the encoding before it ended,   *)
(* the end found from the tag and the length header in the buffer, also    *)
(* when a header is of the long form though the short would do, or a       *)
(* Boolean byte is neither 0 nor 1.                                        *)
(***************************************************************************)
RECURSIVE C30_Skip(_)
RECURSIVE C30_SkipAll(_, _)
\* the number of bytes of the encoding that starts pdu
C30_Skip(pdu) ==
    LET lp == get_length_and_pdu(Tail(pdu))
        header == Len(pdu) - Len(lp.pdu)
        n == IntOfUnsigned(lp.length)
    IN  CASE pdu[1] \in {3, 17} -> 2
          [] pdu[1] = 9 -> header + n
          [] pdu[1] = 4 -> header + ceil8(n)
          [] pdu[1] = 1 -> header + C30_SkipAll(lp.pdu, n)

C30_SkipAll(pdu, n) ==
    IF n = 0 THEN 0
    ELSE C30_Skip(pdu) + C30_SkipAll(SliceFrom(pdu, C30_Skip(pdu)), n - 1)

C30_Type(tag) ==
    CASE tag = 3 -> "Boolean" [] tag = 17 -> "Unsigned" [] tag = 9 -> "OctetString"
      [] tag = 4 -> "BitString" [] tag = 1 -> "Array"

RECURSIVE C30_Children(_, _)
\* the n children decoded each from its own bytes of pdu
C30_Children(pdu, n) ==
    IF n = 0 THEN <<>>
    ELSE <<New(C30_Type(pdu[1]), PyBytes(SliceTo(pdu, C30_Skip(pdu)))).v>>
             \o C30_Children(SliceFrom(pdu, C30_Skip(pdu)), n - 1)

C30_Partition ==
    (last.op = "new" /\ last.arg.form = "bytes"
        /\ last.before.T \in {"Array", "Structure"} /\ last.before.contents = NoAttr) =>
        /\ last.ok
        /\ obj.values = C30_Children(SliceFrom(last.arg.b, 2), last.arg.b[2])

(***************************************************************************)
(* C5: the Tag Registry is exactly the tag-to-type map of the concrete     *)
(* types: looking up the tag byte of a concrete type T returns T, and      *)
(* looking up a byte that is no concrete type's tag fails with the         *)
(* unknown-type error.                                                     *)
(***************************************************************************)
C5_Registry ==
    rg.pc = "done" =>
        LET owners == {T \in ConcreteTypes : rg.tag # <<>> /\ classes[T].TAG = rg.tag[1]}
        IN  /\ \A T \in owners : rg.res.ok /\ rg.res.T = T
            /\ owners = {} => ~rg.res.ok /\ rg.res.err = "unknown_type"

(***************************************************************************)
(* The length codec as a state machine: a length and a payload are chosen, *)
(* the length is encoded, and the header followed by the payload decoded.  *)
(***************************************************************************)
LenDigitSet == {0, 1, 127, 128, 255}
PayloadByteSet == {0, 129, 255}

RECURSIVE SeqsUpTo(_, _)
\* all sequences over S of length at most n
SeqsUpTo(S, n) ==
    IF n = 0 THEN {<<>>}
    ELSE LET shorter == SeqsUpTo(S, n - 1)
         IN  shorter \cup {s \o <<x>> : s \in {t \in shorter : Len(t) = n - 1}, x \in S}

LenInputs == {d \in SeqsUpTo(LenDigitSet, MaxLenDigits) : d = StripZeros(d)}
\* lengths of 2**32 and more, of five to seven digits: the least and the
\* greatest of each size, and the two about 256**7 - 411
LongLenInputs ==
    {<<1, 0, 0, 0, 0>>, <<255, 255, 255, 255, 255>>,
     <<1, 0, 0, 0, 0, 0>>, <<255, 255, 255, 255, 255, 254>>,
     <<255, 255, 255, 255, 255, 255>>,
     <<1, 0, 0, 0, 0, 0, 0>>, <<255, 255, 255, 255, 255, 254, 100>>,
     <<255, 255, 255, 255, 255, 254, 101>>, <<255, 255, 255, 255, 255, 255, 255>>}
Payloads == SeqsUpTo(PayloadByteSet, MaxPayload)


LcInit ==
    /\ classes = Class
    /\ heap = NoHeap
    /\ lc \in [pc : {"start"}, n : LenInputs \cup LongLenInputs, payload : Payloads,
               enc : {<<>>}, dec : {NoLen}]
    /\ rg = RgIdle
    /\ obj = NoValue
    /\ last = NoOp

LcEncode ==
    /\ lc.pc = "start"
    /\ lc' = [lc EXCEPT !.pc = "encoded", !.enc = encode_length(lc.n)]
    /\ UNCHANGED <<classes, heap, rg, obj, last>>

LcDecode ==
    /\ lc.pc = "encoded"
    /\ lc' = [lc EXCEPT !.pc = "decoded",
                        !.dec = get_length_and_pdu(lc.enc \o lc.payload)]
    /\ UNCHANGED <<classes, heap, rg, obj, last>>

LcNext == LcEncode \/ LcDecode

SpecLength == LcInit /\ [][LcNext]_vars

(***************************************************************************)
(* C2: encode_length(n) is <<n>> below 0x80, <<0x81, n>> for 0x80..0xFF,   *)
(* 0x82 and two big-endian bytes for 0x100..0xFFFF, 0x84 and four          *)
(* big-endian bytes for 0x10000..0xFFFFFFFF; and decoding the header       *)
(* followed by any payload returns exactly (n, payload).                   *)
(***************************************************************************)
C2_Expected(n) ==
    CASE Len(n) = 0 -> <<0>>
      [] Len(n) = 1 /\ n[1] < 128 -> <<n[1]>>
      [] Len(n) = 1 /\ n[1] >= 128 -> <<129, n[1]>>
      [] Len(n) = 2 -> <<130, n[1], n[2]>>
      [] Len(n) = 3 -> <<132, 0, n[1], n[2], n[3]>>
      [] Len(n) = 4 -> <<132, n[1], n[2], n[3], n[4]>>

C2_LengthCodec ==
    /\ (lc.pc # "start" /\ Len(lc.n) <= 4) => lc.enc = C2_Expected(lc.n)
    /\ (lc.pc = "decoded" /\ Len(lc.n) <= 4) =>
           /\ lc.dec.ok
           /\ lc.dec.length = lc.n
           /\ lc.dec.pdu = lc.payload

C2_Witness ==
    /\ lc.pc = "decoded"
    /\ lc.n = <<255, 255, 255, 255>>
    /\ lc.payload = <<129, 0>>
    /\ lc.dec.length = <<255, 255, 255, 255>>

====
